---- MODULE Spec2Model ----
(***************************************************************************)
(* Augmented-tour: the spatial annotation subsystem.                       *)
(*                                                                         *)
(*   SpecApi    one XRComponentRenderer instance of an annotation: the     *)
(*              api fetch effect, its refresh timer, fetch completions     *)
(*              and the stale badge.                                       *)
(*   SpecStore  the annotation store kept in localStorage under the key    *)
(*              "roomComponents".                                          *)
(***************************************************************************)
EXTENDS Integers, Sequences, FiniteSets, TLC

\* ------------------------------------------------------------------ bounds
\* Clock instants the model lets pass after page load.
MaxSteps == 4
\* Milliseconds between two clock instants of the model.
ClockStepMs == 5000
\* Date.now() at page load (a positive epoch time).
StartMs == 5000
\* Fetches issued in one run.
MaxFetches == 2
\* Renderer instances mounted in one run.
MaxMounts == 2
\* Annotations created in one run of the store.
MaxAnnotations == 3

\* ------------------------------------------------------------- null values
\* null / undefined: an optional value is a sequence of length 0 or 1.
None == <<>>
Some(x) == <<x>>
IsSome(o) == Len(o) = 1
Get(o) == o[1]

\* ------------------------------------------------ annotation configurations
Urls == {"", "u1"}
RefreshIntervals == {0, 10}
RenderAsTypes == {"status", "infobox"}

ApiConfigs ==
  { [url |-> u, renderAs |-> r, refreshInterval |-> i] :
      u \in Urls, r \in RenderAsTypes, i \in RefreshIntervals }

\* The declared data of an api annotation: its ApiConfig plus fallback fields.
ApiDataOf(cfg) == [_api |-> cfg, title |-> "declared", status |-> "working"]

\* The annotations the renderer is mounted with.
RenderedComponents ==
  { [type |-> "api", data |-> ApiDataOf(cfg)] : cfg \in ApiConfigs }
    \cup { [type |-> "infobox", data |-> [title |-> "declared", text |-> "body"]] }

\* Bodies a remote endpoint answers with (JSON objects).
Jsons ==
  { [title |-> "fetched"],
    [status |-> "warning", text |-> "from api"] }

\* Ways a fetch fails: non-2xx status, transport error, body that is not JSON.
FetchErrors == {"HTTP 500", "Failed to fetch", "Unexpected token"}

VARIABLES
  now,          \* Date.now(), milliseconds
  mounted,      \* a renderer instance is in the render tree
  inst,         \* number of the instance mounted last
  component,    \* the component prop of the instance (the stored annotation)
  apiData, apiStatus, apiError, lastFetched,   \* useState of the instance
  isExpanded,
  intervalRef,  \* useRef of the instance: the timer id, or None
  timers,       \* the browser's active interval timers
  nextTimerId,
  pending,      \* fetches in flight
  nIssued,      \* fetches issued so far
  autoFetches,  \* fetches the live instance issued from its effect or timer
  lastApplied,  \* seq of the fetch whose completion the instance applied last
  staleShown,   \* the stale badge as computed in the last render
  lastGood,     \* the data the instance's last successful fetch produced
  ev            \* the handler that ran last

VARIABLES
  lsComponents, \* localStorage item "roomComponents": its text, or None
  storageMode,  \* "ok", "full" (setItem throws) or "unavailable" (all throw)
  nextId,       \* ids handed out so far (crypto.randomUUID is fresh each call)
  lastCall      \* the store function called last, with its arguments

VARIABLES
  lsMarkers,    \* localStorage item "navigationMarkers": its text, or None
  nextMarkerId, \* marker ids handed out so far
  currentPano,  \* useState of VirtualTour
  isEditMode, editModeType,
  showComponentEditor, showNavMarkerEditor,
  selectedPosition, editingComponent,
  selectedType, componentData,   \* useState of the mounted ComponentEditor
  selectedRoom, error,           \* useState of the mounted NavigationMarkerEditor
  handler,      \* the handler of the tour that ran last
  clickEvent    \* the MouseEvent of the canvas click that ran last, or None

VARIABLES
  hoveredCoords,  \* useState of the mounted PanoramaViewer
  roomComponents, \* its memoized getComponentsForRoom(pano.label)
  navMarkers,     \* its memoized getMarkersForRoom(pano.label)
  markerPos,      \* the positions its last render gave the NavigationMarkers
  componentPos    \* and the XRComponentRenderers, or None before a render

VARIABLES
  zindData,     \* the entries of the room data file, in Object.entries order
  parsed        \* what parseZindData returned for them, or None before the call

VARIABLES
  cache,            \* TextureCache.cache: image path -> texture
  loadingPromises,  \* TextureCache.loadingPromises: image path -> load
  loads,            \* the loadTexture promises that are pending
  nextLoad,         \* loads started so far
  clearCalls,       \* calls of clear() so far
  textureCall       \* the method or callback of the cache that ran last

VARIABLES
  phase,            \* where loadData is: "loadZindData", "preload", "done", "failed"
  loading,          \* useState of VirtualTour
  tourError,        \* useState of VirtualTour (error), or None
  loadingProgress,  \* useState of VirtualTour
  pendingImages,    \* the images of preloadPanoramaImages that have not reported
  failedImages,     \* the images that reported an error
  loaded,           \* preloadPanoramaImages' counter
  progressCalls     \* the calls of onProgress so far, in order

storeVars == << lsComponents, storageMode, nextId, lastCall >>

navVars == << lsMarkers, nextMarkerId >>

sessionVars ==
  << currentPano, isEditMode, editModeType, showComponentEditor,
     showNavMarkerEditor, selectedPosition, editingComponent, selectedType,
     componentData, selectedRoom, error, handler, clickEvent >>

viewerVars ==
  << hoveredCoords, roomComponents, navMarkers, markerPos, componentPos >>

tourVars == << navVars, sessionVars, viewerVars >>

rendererVars ==
  << mounted, inst, component, apiData, apiStatus, apiError, lastFetched,
     isExpanded, intervalRef, timers, nextTimerId, pending, nIssued,
     autoFetches, lastApplied, staleShown, lastGood, ev >>

apiVars == << now, rendererVars >>

parserVars == << zindData, parsed >>

textureVars ==
  << cache, loadingPromises, loads, nextLoad, clearCalls, textureCall >>

loadDataVars ==
  << phase, loading, tourError, loadingProgress, pendingImages, failedImages,
     loaded, progressCalls >>

loaderVars == << parserVars, textureVars, loadDataVars >>

vars == << apiVars, storeVars, tourVars, loaderVars >>

\* ------------------------------------------------------ XRComponentRenderer
HasApi(c) == "_api" \in DOMAIN c.data

\* cfg?.url : the url when the annotation carries an ApiConfig.
UrlOf(data) == IF "_api" \in DOMAIN data THEN data._api.url ELSE ""

\* component.data._api?.refreshInterval ?? 0
IntervalOf(c) == IF HasApi(c) THEN c.data._api.refreshInterval ELSE 0

\* { ...a, ...b }
Spread(a, b) ==
  [k \in DOMAIN a \cup DOMAIN b |-> IF k \in DOMAIN b THEN b[k] ELSE a[k]]

\* The stale badge of one render at time t.
IsStale(lf, c, t) ==
  IF ~IsSome(lf) \/ Get(lf) = 0 \/ IntervalOf(c) = 0
    THEN FALSE
    ELSE t - Get(lf) > IntervalOf(c) * 1500

\* What renderApiContent returns for the instance's state.
RenderApiContent(c, st, d) ==
  IF ~HasApi(c) THEN [card |-> "none"]
  ELSE IF st = "loading" /\ ~IsSome(d) THEN [card |-> "skeleton"]
  ELSE IF st = "error" /\ ~IsSome(d) THEN [card |-> "error"]
  ELSE [card |-> c.data._api.renderAs,
        data |-> IF IsSome(d) THEN Get(d) ELSE c.data]

\* The fetch a call of fetchApi issues: none when the url is empty.
FetchIssued(i, data, n) ==
  IF UrlOf(data) = "" THEN {}
  ELSE { [seq |-> n + 1, inst |-> i, url |-> UrlOf(data), data |-> data] }

\* fetchApi without its setApiStatus("loading").
StatusOnFetchKept(data, st) == st

\* apiStatus after the synchronous part of fetchApi.
StatusOnFetch(data, st) == IF UrlOf(data) = "" THEN st ELSE "loading"

\* The effect with its test written interval >= 0.
TimerCreatedAlways(c, i, id, t) ==
  IF c.type = "api"
    THEN { [id |-> id, inst |-> i, period |-> IntervalOf(c) * 1000,
            due |-> t + IntervalOf(c) * 1000, data |-> c.data] }
    ELSE {}

\* The timer the effect creates: none unless the interval is positive.
TimerCreated(c, i, id, t) ==
  IF c.type = "api" /\ IntervalOf(c) > 0
    THEN { [id |-> id, inst |-> i, period |-> IntervalOf(c) * 1000,
            due |-> t + IntervalOf(c) * 1000, data |-> c.data] }
    ELSE {}

\* An effect that returns no cleanup.
TimersAfterCleanupNone(ts, ref) == ts

\* The effect's cleanup: clearInterval(intervalRef.current) when it is set.
TimersAfterCleanup(ts, ref) ==
  IF IsSome(ref) THEN { t \in ts : t.id # Get(ref) } ELSE ts

\* A fresh instance renders, then its api effect runs.
MountInstance(c, ts) ==
  LET i == inst + 1
      issued == IF c.type = "api" THEN FetchIssued(i, c.data, nIssued) ELSE {}
      made == TimerCreated(c, i, nextTimerId, now)
  IN /\ inst' = i
     /\ mounted' = TRUE
     /\ component' = c
     /\ apiData' = None
     /\ apiError' = None
     /\ lastFetched' = None
     /\ isExpanded' = FALSE
     /\ apiStatus' = IF c.type = "api" THEN StatusOnFetch(c.data, "idle") ELSE "idle"
     /\ pending' = pending \cup issued
     /\ nIssued' = nIssued + Cardinality(issued)
     /\ autoFetches' = Cardinality(issued)
     /\ timers' = ts \cup made
     /\ intervalRef' = IF made = {} THEN None ELSE Some(nextTimerId)
     /\ nextTimerId' = nextTimerId + Cardinality(made)
     /\ lastApplied' = 0
     /\ staleShown' = FALSE
     /\ lastGood' = None
     /\ UNCHANGED now

\* Room entry: PanoramaViewer renders the stored annotation c.
Mount(c) ==
  /\ UNCHANGED << storeVars, tourVars, loaderVars >>
  /\ ~mounted
  /\ inst < MaxMounts
  /\ nIssued < MaxFetches
  /\ MountInstance(c, timers)
  /\ ev' = "mount"

\* Room change or delete: the instance leaves the render tree.
Unmount ==
  /\ UNCHANGED << storeVars, tourVars, loaderVars >>
  /\ mounted
  /\ mounted' = FALSE
  /\ timers' = TimersAfterCleanup(timers, intervalRef)
  /\ ev' = "unmount"
  /\ UNCHANGED << now, inst, component, apiData, apiStatus, apiError,
                  lastFetched, isExpanded, intervalRef, nextTimerId, pending,
                  nIssued, autoFetches, lastApplied, staleShown, lastGood >>

\* An edit of the annotation is committed: PanoramaViewer is re-keyed, the
\* instance is unmounted and a fresh one is mounted with the edited data.
Reconfigure(c) ==
  /\ UNCHANGED << storeVars, tourVars, loaderVars >>
  /\ mounted
  /\ inst < MaxMounts
  /\ nIssued < MaxFetches
  /\ c.type = component.type
  /\ c # component
  /\ MountInstance(c, TimersAfterCleanup(timers, intervalRef))
  /\ ev' = "reconfigure"

\* The merge with its operands swapped: { ...json, ...component.data }.
DataOnSuccessDeclaredWins(data, j) == Some(Spread(j, data))

\* The state fetchApi leaves after a 2xx answer with JSON body j.
DataOnSuccess(data, j) == Some(Spread(data, j))

\* A catch block that also runs setApiData(null).
DataOnFailureCleared(d) == None

\* apiData after a failed fetch: the catch block does not touch it.
DataOnFailure(d) == d

\* A completion is applied only by an instance still in the render tree:
\* React drops the state updates of an unmounted component.
Alive(i) == mounted /\ inst = i

\* setInterval callback of timer t: fetchApi of the closure t was created with.
IntervalTick(t) ==
  /\ UNCHANGED << storeVars, tourVars, loaderVars >>
  /\ t \in timers
  /\ t.due <= now
  /\ nIssued < MaxFetches
  /\ LET issued == FetchIssued(t.inst, t.data, nIssued)
         st == IF Alive(t.inst) THEN StatusOnFetch(t.data, apiStatus) ELSE apiStatus
     IN /\ pending' = pending \cup issued
        /\ nIssued' = nIssued + Cardinality(issued)
        /\ autoFetches' = IF Alive(t.inst) THEN autoFetches + Cardinality(issued)
                          ELSE autoFetches
        /\ apiStatus' = st
        /\ staleShown' = IF st # apiStatus THEN IsStale(lastFetched, component, now)
                         ELSE staleShown
  /\ timers' = (timers \ {t}) \cup {[t EXCEPT !.due = @ + t.period]}
  /\ ev' = "tick"
  /\ UNCHANGED << now, mounted, inst, component, apiData, apiError, lastFetched,
                  isExpanded, intervalRef, nextTimerId, lastApplied, lastGood >>

\* fetch(url) answers 2xx and res.json() yields j.
FetchResolve(f, j) ==
  /\ UNCHANGED << storeVars, tourVars, loaderVars >>
  /\ f \in pending
  /\ pending' = pending \ {f}
  /\ IF Alive(f.inst)
       THEN /\ apiData' = DataOnSuccess(f.data, j)
            /\ apiStatus' = "ok"
            /\ apiError' = None
            /\ lastFetched' = Some(now)
            /\ lastApplied' = f.seq
            /\ staleShown' = IsStale(Some(now), component, now)
            /\ lastGood' = apiData'
            /\ ev' = "resolve"
       ELSE /\ UNCHANGED << apiData, apiStatus, apiError, lastFetched,
                            lastApplied, staleShown, lastGood >>
            /\ ev' = "dropped"
  /\ UNCHANGED << now, mounted, inst, component, isExpanded, intervalRef,
                  timers, nextTimerId, nIssued, autoFetches >>

\* fetch(url) answers non-2xx, fails in transport, or the body is not JSON.
FetchReject(f, e) ==
  /\ UNCHANGED << storeVars, tourVars, loaderVars >>
  /\ f \in pending
  /\ pending' = pending \ {f}
  /\ IF Alive(f.inst)
       THEN /\ apiData' = DataOnFailure(apiData)
            /\ apiStatus' = "error"
            /\ apiError' = Some(e)
            /\ lastApplied' = f.seq
            /\ staleShown' = IF apiStatus # "error" \/ apiError # Some(e)
                               \/ apiData' # apiData
                             THEN IsStale(lastFetched, component, now)
                             ELSE staleShown
            /\ ev' = "reject"
       ELSE /\ UNCHANGED << apiData, apiStatus, apiError, lastApplied, staleShown >>
            /\ ev' = "dropped"
  /\ UNCHANGED << now, mounted, inst, component, lastFetched, isExpanded,
                  intervalRef, timers, nextTimerId, nIssued, autoFetches,
                  lastGood >>

\* The Retry button of the expanded error card.
RetryClick ==
  /\ UNCHANGED << storeVars, tourVars, loaderVars >>
  /\ mounted
  /\ RenderApiContent(component, apiStatus, apiData).card = "error"
  /\ isExpanded
  /\ nIssued < MaxFetches
  /\ LET issued == FetchIssued(inst, component.data, nIssued)
     IN /\ pending' = pending \cup issued
        /\ nIssued' = nIssued + Cardinality(issued)
  /\ apiStatus' = StatusOnFetch(component.data, apiStatus)
  /\ staleShown' = IsStale(lastFetched, component, now)
  /\ ev' = "retry"
  /\ UNCHANGED << now, mounted, inst, component, apiData, apiError, lastFetched,
                  isExpanded, intervalRef, timers, nextTimerId, autoFetches,
                  lastApplied, lastGood >>

\* A click on the card: setIsExpanded(!isExpanded), which re-renders it.
ToggleExpanded ==
  /\ UNCHANGED << storeVars, tourVars, loaderVars >>
  /\ mounted
  /\ RenderApiContent(component, apiStatus, apiData).card # "skeleton"
  /\ isExpanded' = ~isExpanded
  /\ staleShown' = IsStale(lastFetched, component, now)
  /\ ev' = "toggle"
  /\ UNCHANGED << now, mounted, inst, component, apiData, apiStatus, apiError,
                  lastFetched, intervalRef, timers, nextTimerId, pending,
                  nIssued, autoFetches, lastApplied, lastGood >>

\* Date.now() moves on; a due timer fires before the clock moves further.
AdvanceTime ==
  /\ UNCHANGED << storeVars, tourVars, loaderVars >>
  /\ now < StartMs + MaxSteps * ClockStepMs
  /\ \A t \in timers : t.due > now
  /\ now' = now + ClockStepMs
  /\ ev' = "time"
  /\ UNCHANGED << mounted, inst, component, apiData, apiStatus, apiError,
                  lastFetched, isExpanded, intervalRef, timers, nextTimerId,
                  pending, nIssued, autoFetches, lastApplied, staleShown,
                  lastGood >>

\* ------------------------------------------------------- componentStorage
\* A string is a sequence of characters; these are the characters of the
\* room labels of the model.
LowerOf(ch) ==
  CASE ch = "A" -> "a"
    [] ch = "B" -> "b"
    [] ch = "C" -> "c"
    [] ch \in {"Living Room", "LIVING ROOM"} -> "living room"
    [] ch \in {"Hallway", "HALLWAY"} -> "hallway"
    [] OTHER -> ch

UpperOf(ch) ==
  CASE ch = "a" -> "A"
    [] ch = "b" -> "B"
    [] ch = "c" -> "C"
    [] ch \in {"Living Room", "living room"} -> "LIVING ROOM"
    [] ch \in {"Hallway", "hallway"} -> "HALLWAY"
    [] OTHER -> ch

\* String.prototype.toLowerCase
ToLowerCase(str) == [i \in 1..Len(str) |-> LowerOf(str[i])]

ToUpperCase(str) == [i \in 1..Len(str) |-> UpperOf(str[i])]

\* The white space and line terminator characters of the model's alphabet.
WhiteSpace == {" ", "\t", "\n"}

\* String.prototype.trim
RECURSIVE TrimStart(_)
TrimStart(str) ==
  IF str # <<>> /\ Head(str) \in WhiteSpace THEN TrimStart(Tail(str)) ELSE str

RECURSIVE TrimEnd(_)
TrimEnd(str) ==
  IF str # <<>> /\ str[Len(str)] \in WhiteSpace
    THEN TrimEnd(SubSeq(str, 1, Len(str) - 1))
    ELSE str

Trim(str) == TrimEnd(TrimStart(str))

\* A bucket key that keeps the label as written.
NormalizeNot(label) == label

\* roomLabel.toLowerCase().trim()
Normalize(label) == Trim(ToLowerCase(label))

\* The labels panoramas carry: two spellings of room "a b" (the inner space
\* is part of the name) and one of room "c".
RoomLabels ==
  { <<"a", " ", "b">>, <<" ", "A", " ", "B", " ">>, <<"C">> }

\* A number is a sign and a magnitude (in hundredths): JavaScript has -0.
Num(neg, mag) == [neg |-> neg, mag |-> mag]

\* Pick points that include the sphere's centre.
PositionsWithCentre ==
  { << Num(FALSE, 0), Num(FALSE, 0), Num(FALSE, 0) >>,
    << Num(TRUE, 0), Num(FALSE, 5000), Num(FALSE, 0) >> }

\* The pick point (-0, 50, 0): parseFloat("-0.00") is -0.
Positions ==
  { << Num(TRUE, 0), Num(FALSE, 5000), Num(FALSE, 0) >> }

\* The form data the editor commits, by annotation type.
FormData ==
  { [type |-> "infobox", data |-> [title |-> "Information", text |-> "body"]],
    [type |-> "infobox", data |-> [title |-> "Edited", text |-> "body"]] }

\* a === b on numbers
NumEq(a, b) == a.mag = b.mag /\ (a.mag = 0 \/ a.neg = b.neg)

\* Field-wise === of two positions.
PositionEq(p, q) == \A i \in 1..3 : NumEq(p[i], q[i])

\* Field-wise equality of two annotations.
ComponentEq(a, b) ==
  /\ a.id = b.id
  /\ a.roomLabel = b.roomLabel
  /\ a.type = b.type
  /\ a.data = b.data
  /\ a.createdAt = b.createdAt
  /\ PositionEq(a.position, b.position)

\* A JSON.stringify that writes every number as 0.
JsonNumberZero(n) == Num(FALSE, 0)

\* JSON.stringify of a number: -0 is written "0".
JsonNumber(n) == IF n.mag = 0 THEN Num(FALSE, 0) ELSE n

JsonComponent(a) ==
  [a EXCEPT !.position =
     << JsonNumber(a.position[1]), JsonNumber(a.position[2]),
        JsonNumber(a.position[3]) >>]

\* JSON.stringify(components): the text kept in localStorage.
Stringify(components) ==
  [kind |-> "json",
   value |-> [room \in DOMAIN components |->
                [i \in 1..Len(components[room]) |->
                   JsonComponent(components[room][i])]]]

\* JSON.parse(data)
Parse(text) == text.value

\* {}
EmptyStore == [room \in {} |-> <<>>]

\* Item texts the store did not write: the empty string, text that is not
\* JSON, and the JSON texts null, 5 and [].
ForeignTexts ==
  { [kind |-> "empty"], [kind |-> "garbage"], [kind |-> "null"],
    [kind |-> "number"], [kind |-> "array"] }

\* The type of the value loadRoomComponents() returns: the parsed item, or
\* {} when the item is absent or empty or getItem or JSON.parse throws.
LoadedKind(item) ==
  IF storageMode = "unavailable" \/ ~IsSome(item) THEN "object"
  ELSE IF Get(item).kind \in {"json", "empty", "garbage"} THEN "object"
  ELSE Get(item).kind

\* The buckets of the value load returns (null, 5 and [] have none).
Loaded(item) ==
  IF storageMode # "unavailable" /\ IsSome(item) /\ Get(item).kind = "json"
    THEN Parse(Get(item))
    ELSE EmptyStore

\* loadRoomComponents()
LoadRoomComponents == Loaded(lsComponents)

\* allComponents[key] throws on null.
QueryThrows(item) == LoadedKind(item) = "null"

\* addComponent throws on null (property read) and on a number (property
\* assignment in strict mode); on [] the bucket is lost in JSON.stringify.
AddThrows(item) == LoadedKind(item) \in {"null", "number"}

\* for-in over null, 5 and [] has no iteration: the value is kept, and
\* deleteComponent writes the same text again.
KeepsForeign(item) == LoadedKind(item) # "object"

\* saveRoomComponents that writes although setItem threw.
SavedItemAlways(components) == Some(Stringify(components))

\* The item after saveRoomComponents(components): a throwing setItem is
\* caught and leaves the item as it was.
SavedItem(components) ==
  IF storageMode = "ok" THEN Some(Stringify(components)) ELSE lsComponents

\* allComponents[key] || []
Bucket(all, key) == IF key \in DOMAIN all THEN all[key] ELSE <<>>

\* getComponentsForRoom(roomLabel)
GetComponentsForRoom(roomLabel) ==
  Bucket(LoadRoomComponents, Normalize(roomLabel))

\* allComponents after allComponents[key] = bucket
WithBucket(all, key, bucket) ==
  [room \in DOMAIN all \cup {key} |-> IF room = key THEN bucket ELSE all[room]]

\* addComponent that keys the bucket by the label as written.
AddedRaw(all, c) ==
  WithBucket(all, NormalizeNot(c.roomLabel),
             Append(Bucket(all, NormalizeNot(c.roomLabel)), c))

\* allComponents after addComponent's push.
Added(all, c) ==
  WithBucket(all, Normalize(c.roomLabel),
             Append(Bucket(all, Normalize(c.roomLabel)), c))

\* updateComponent that keeps the entry as it was.
UpdatedEntryKept(c, updates) == c

\* { ...allComponents[roomLabel][index], ...updates }
UpdatedEntry(c, updates) == Spread(c, updates)

HasId(all, id) ==
  \E room \in DOMAIN all : \E i \in 1..Len(all[room]) : all[room][i].id = id

\* allComponents after updateComponent's assignment (ids are unique, so the
\* first entry with the id is the only one).
Updated(all, id, updates) ==
  [room \in DOMAIN all |->
     [i \in 1..Len(all[room]) |->
        IF all[room][i].id = id THEN UpdatedEntry(all[room][i], updates)
        ELSE all[room][i]]]

RECURSIVE Filter(_, _)
Filter(seq, id) ==
  IF seq = <<>> THEN <<>>
  ELSE IF Head(seq).id # id THEN <<Head(seq)>> \o Filter(Tail(seq), id)
  ELSE Filter(Tail(seq), id)

\* deleteComponent that removes nothing.
DeletedKept(all, id) == all

\* allComponents after deleteComponent's filter of every bucket.
Deleted(all, id) == [room \in DOMAIN all |-> Filter(all[room], id)]

\* The annotations of the loaded store, in any bucket.
AllOf(all) ==
  UNION { { all[room][i] : i \in 1..Len(all[room]) } : room \in DOMAIN all }

Stored == AllOf(LoadRoomComponents)

\* addComponent(c)
AddComponentCall(c) ==
  /\ lsComponents' = IF KeepsForeign(lsComponents) THEN lsComponents
                     ELSE SavedItem(Added(LoadRoomComponents, c))
  /\ lastCall' = [op |-> "addComponent", component |-> c,
                  threw |-> AddThrows(lsComponents)]

\* handleSaveComponent, no annotation under edit: addComponent of the form
\* data with a fresh id and createdAt = Date.now(). The clock moves on
\* after every commit, so later calls see a later Date.now().
AddComponent(label, pos, form) ==
  /\ UNCHANGED << rendererVars, tourVars, loaderVars >>
  /\ nextId < MaxAnnotations
  /\ AddComponentCall([id |-> nextId + 1, roomLabel |-> label,
                       type |-> form.type, position |-> pos,
                       data |-> form.data, createdAt |-> now])
  /\ nextId' = nextId + 1
  /\ now' = now + ClockStepMs
  /\ UNCHANGED storageMode

\* The field sets handleSaveComponent and callers pass to updateComponent:
\* any of roomLabel, position and data (the type of a stored annotation is
\* fixed in the editor, id and createdAt are omitted by the caller's type).
UpdatesFor(c) ==
  LET labels == { l \in RoomLabels : Normalize(l) = Normalize(c.roomLabel) }
      datas == { f.data : f \in { g \in FormData : g.type = c.type } }
  IN { [roomLabel |-> l, type |-> c.type, position |-> p, data |-> d] :
         l \in labels, p \in Positions, d \in datas }
     \cup { [data |-> d] : d \in datas }
     \cup { [position |-> p] : p \in Positions }

\* updateComponent(id, updates): saves only when the id is found.
UpdateComponentCall(id, updates) ==
  /\ LET all == LoadRoomComponents
     IN lsComponents' = IF HasId(all, id) THEN SavedItem(Updated(all, id, updates))
                        ELSE lsComponents
  /\ lastCall' = [op |-> "updateComponent", id |-> id, updates |-> updates,
                  threw |-> FALSE]

UpdateComponent(id, updates) ==
  /\ UNCHANGED << rendererVars, tourVars, loaderVars >>
  /\ UpdateComponentCall(id, updates)
  /\ UNCHANGED << storageMode, nextId, now >>

\* deleteComponent(id)
DeleteComponentCall(id) ==
  /\ lsComponents' = IF KeepsForeign(lsComponents) THEN lsComponents
                     ELSE SavedItem(Deleted(LoadRoomComponents, id))
  /\ lastCall' = [op |-> "deleteComponent", id |-> id, threw |-> FALSE]

DeleteComponent(id) ==
  /\ UNCHANGED << rendererVars, tourVars, loaderVars >>
  /\ DeleteComponentCall(id)
  /\ UNCHANGED << storageMode, nextId, now >>

\* clearAllComponents(): removeItem, outside any try block.
\* A reset that keeps the item.
ClearAllComponentsCallKept ==
  /\ lsComponents' = lsComponents
  /\ lastCall' = [op |-> "clearAllComponents",
                  threw |-> (storageMode = "unavailable")]

ClearAllComponentsCall ==
  /\ lsComponents' = IF storageMode = "unavailable" THEN lsComponents ELSE None
  /\ lastCall' = [op |-> "clearAllComponents",
                  threw |-> (storageMode = "unavailable")]

ClearAllComponents ==
  /\ UNCHANGED << rendererVars, tourVars, loaderVars >>
  /\ ClearAllComponentsCall
  /\ UNCHANGED << storageMode, nextId, now >>

\* The origin's quota is used up, or space is freed again.
StorageFills ==
  /\ UNCHANGED << rendererVars, tourVars, loaderVars >>
  /\ storageMode = "ok"
  /\ storageMode' = "full"
  /\ lastCall' = [op |-> "none"]
  /\ UNCHANGED << lsComponents, nextId, now >>

StorageFrees ==
  /\ UNCHANGED << rendererVars, tourVars, loaderVars >>
  /\ storageMode = "full"
  /\ storageMode' = "ok"
  /\ lastCall' = [op |-> "none"]
  /\ UNCHANGED << lsComponents, nextId, now >>

\* ------------------------------------------------------------ tour data
\* parseZindData's panoramas: two of the living room, whose labels are
\* spelled differently, and one of the hallway.
AllPanos ==
  << [id |-> "p1", label |-> <<"living room">>, isPrimary |-> FALSE],
     [id |-> "p2", label |-> <<"Living Room", " ">>, isPrimary |-> TRUE],
     [id |-> "p3", label |-> <<"hallway">>, isPrimary |-> TRUE] >>

\* Array.prototype.find, given the entries that satisfy the test in their
\* order: the first of them, or None.
Find(hits) == IF hits = <<>> THEN None ELSE Some(hits[1])

\* The keys of groupPanosByRoom's Map, in insertion order.
RECURSIVE RoomKeys(_)
RoomKeys(panos) ==
  IF panos = <<>> THEN <<>>
  ELSE LET rest == RoomKeys(SubSeq(panos, 1, Len(panos) - 1))
           label == Normalize(panos[Len(panos)].label)
       IN IF \E i \in 1..Len(rest) : rest[i] = label THEN rest
          ELSE Append(rest, label)

\* a.localeCompare(b) < 0 on the room names of the model.
LocaleBefore(a, b) ==
  LET Rank(l) == CASE l = <<"hallway">> -> 1
                   [] l = <<"living room">> -> 2
                   [] OTHER -> 3
  IN Rank(a) < Rank(b)

\* Array.prototype.sort by label
RECURSIVE SortByLabel(_)
SortByLabel(groups) ==
  IF groups = <<>> THEN <<>>
  ELSE LET least == CHOOSE i \in 1..Len(groups) :
                      \A j \in 1..Len(groups) :
                        ~LocaleBefore(groups[j].label, groups[i].label)
           others == [k \in 1..(Len(groups) - 1) |->
                        IF k < least THEN groups[k] ELSE groups[k + 1]]
       IN <<groups[least]>> \o SortByLabel(others)

\* groupPanosByRoom(panos)
GroupPanosByRoom(panos) ==
  LET keys == RoomKeys(panos)
      Group(label) ==
        LET InRoom(p) == Normalize(p.label) = label
            panoramas == SelectSeq(panos, InRoom)
            IsPrimary(p) == p.isPrimary
            primary == Find(SelectSeq(panoramas, IsPrimary))
        IN [label |-> label, panoramas |-> panoramas,
            primaryPano |-> IF IsSome(primary) THEN Get(primary)
                            ELSE panoramas[1]]
  IN SortByLabel([i \in 1..Len(keys) |-> Group(keys[i])])

RoomGroups == GroupPanosByRoom(AllPanos)

\* The pano the tour starts with: the living room's primary one, else the
\* first room's.
StartPano ==
  LET IsLivingRoom(r) == ToLowerCase(r.label) = <<"living room">>
      livingRoom == Find(SelectSeq(RoomGroups, IsLivingRoom))
  IN IF IsSome(livingRoom) THEN Get(livingRoom).primaryPano
     ELSE RoomGroups[1].primaryPano

\* ROOM_MARKERS, for the rooms of the model (coordinates in hundredths).
ROOM_MARKERS ==
  [key \in {<<"living room">>, <<"hallway">>} |->
     IF key = <<"living room">>
       THEN << [room |-> <<"dining room">>,
                coords |-> << Num(TRUE, 4198), Num(TRUE, 1153), Num(FALSE, 2446) >>],
               [room |-> <<"hallway">>,
                coords |-> << Num(TRUE, 3115), Num(TRUE, 727), Num(TRUE, 3841) >>] >>
       ELSE << [room |-> <<"bathroom">>,
                coords |-> << Num(FALSE, 252), Num(FALSE, 276), Num(TRUE, 4979) >>],
               [room |-> <<"kitchen">>,
                coords |-> << Num(TRUE, 4651), Num(TRUE, 308), Num(TRUE, 1792) >>],
               [room |-> <<"bedroom">>,
                coords |-> << Num(TRUE, 565), Num(TRUE, 973), Num(FALSE, 4868) >>],
               [room |-> <<"closet">>,
                coords |-> << Num(FALSE, 4555), Num(TRUE, 319), Num(TRUE, 2024) >>] >>]

\* getRoomDestinations(currentRoom)
GetRoomDestinations(currentRoom) ==
  LET roomLabel == Normalize(currentRoom)
  IN IF roomLabel \in DOMAIN ROOM_MARKERS THEN ROOM_MARKERS[roomLabel] ELSE <<>>

\* ------------------------------------------------ navigationMarkerStorage
\* loadNavigationMarkers()
LoadNavigationMarkers == Loaded(lsMarkers)

\* The item after saveNavigationMarkers(markers).
SavedMarkersItem(markers) ==
  IF storageMode = "ok" THEN Some(Stringify(markers)) ELSE lsMarkers

\* getMarkersForRoom(fromRoom): the key is the label as passed.
GetMarkersForRoom(fromRoom) == Bucket(LoadNavigationMarkers, fromRoom)

\* allMarkers after addNavigationMarker's push.
AddedMarker(all, marker) ==
  WithBucket(all, marker.fromRoom, Append(Bucket(all, marker.fromRoom), marker))

StoredMarkers == AllOf(LoadNavigationMarkers)

\* ------------------------------------------------------------ VirtualTour
\* Creations (annotations and markers) in one run of the tour.
MaxCommits == 2

\* COMPONENT_TEMPLATES, for the types of the model.
COMPONENT_TEMPLATES ==
  [infobox |-> [type |-> "infobox",
                data |-> [title |-> "Information",
                          text |-> "Add your information here"]],
   status  |-> [type |-> "status",
                data |-> [title |-> "Status Indicator", status |-> "working"]]]

ComponentTypes == DOMAIN COMPONENT_TEMPLATES

\* What the user types into the title field.
Titles == {"Edited"}

\* A modal covers the canvas and the controls.
ModalOpen == showComponentEditor \/ showNavMarkerEditor

\* PanoramaViewer's render throws when a query throws.
Crashed == QueryThrows(lsComponents) \/ QueryThrows(lsMarkers)

\* PanoramaViewer is remounted (key) after every commit, delete and reset,
\* so its memoized lists are the lists of the store.
RoomComponents == GetComponentsForRoom(currentPano.label)

NavMarkers == GetMarkersForRoom(currentPano.label)

\* [...hardcodedDestinations, ...dynamicMarkers]
AllDestinations(label) ==
  LET markers == GetMarkersForRoom(label)
  IN GetRoomDestinations(label)
     \o [i \in 1..Len(markers) |->
           [room |-> markers[i].toRoom, coords |-> markers[i].position]]

\* allDestinations of the mounted viewer, from its memoized navMarkers.
RenderedDestinations ==
  GetRoomDestinations(currentPano.label)
  \o [i \in 1..Len(navMarkers) |->
        [room |-> navMarkers[i].toRoom, coords |-> navMarkers[i].position]]

\* roomGroups.map((r) => r.label)
AvailableRooms == [i \in 1..Len(RoomGroups) |-> RoomGroups[i].label]

\* The options of the destination select, without the placeholder.
DestinationOptions(fromRoom) ==
  LET Other(room) == room # fromRoom
  IN SelectSeq(AvailableRooms, Other)

\* useState initial values of the two editors, mounted together when a
\* position is selected.
EditorsMounted(editing) ==
  /\ selectedType' = Some(IF IsSome(editing) THEN Get(editing).type
                          ELSE "infobox")
  /\ componentData' = Some(IF IsSome(editing) THEN Get(editing).data
                           ELSE COMPONENT_TEMPLATES.infobox.data)
  /\ selectedRoom' = Some(<<>>)
  /\ error' = Some(FALSE)

\* Editors that keep their state when the position is cleared.
EditorsKept ==
  /\ selectedPosition' = None
  /\ UNCHANGED << selectedType, componentData, selectedRoom, error >>

\* selectedPosition is null: both editors leave the tree with their state.
EditorsUnmounted ==
  /\ selectedPosition' = None
  /\ selectedType' = None
  /\ componentData' = None
  /\ selectedRoom' = None
  /\ error' = None

\* No store function is called.
NoStoreCall ==
  /\ lastCall' = [op |-> "none"]
  /\ UNCHANGED << now, lsComponents, storageMode, nextId, navVars >>

FormUnchanged ==
  UNCHANGED << selectedPosition, selectedType, componentData, selectedRoom,
               error >>

\* A viewer that stays mounted when its key changes.
ViewerKept == UNCHANGED viewerVars

\* PanoramaViewer is mounted anew (its key changed): hoveredCoords starts
\* as null and the two memos are computed from the stores.
ViewerRemounted ==
  /\ hoveredCoords' = None
  /\ roomComponents' = Bucket(LoadRoomComponents', Normalize(currentPano'.label))
  /\ navMarkers' = Bucket(LoadNavigationMarkers', currentPano'.label)
  /\ markerPos' = None
  /\ componentPos' = None

\* setCurrentPano: the key changes with the pano's id.
ViewerAfterNavigation ==
  IF currentPano'.id = currentPano.id THEN UNCHANGED viewerVars
  ELSE ViewerRemounted

\* The edit mode toggle button.
ToggleEditMode ==
  /\ UNCHANGED << rendererVars, loaderVars >>
  /\ ~Crashed /\ ~ModalOpen
  /\ isEditMode' = ~isEditMode
  /\ handler' = "setIsEditMode"
  /\ clickEvent' = None
  /\ UNCHANGED viewerVars
  /\ NoStoreCall
  /\ FormUnchanged
  /\ UNCHANGED << currentPano, editModeType, showComponentEditor,
                  showNavMarkerEditor, editingComponent >>

\* The edit mode type switcher.
SetEditModeType(type) ==
  /\ UNCHANGED << rendererVars, loaderVars >>
  /\ ~Crashed /\ ~ModalOpen
  /\ isEditMode /\ type # editModeType
  /\ editModeType' = type
  /\ handler' = "setEditModeType"
  /\ clickEvent' = None
  /\ UNCHANGED viewerVars
  /\ NoStoreCall
  /\ FormUnchanged
  /\ UNCHANGED << currentPano, isEditMode, showComponentEditor,
                  showNavMarkerEditor, editingComponent >>

\* handleRoomChange(roomLabel), from the room selector
HandleRoomChange(roomLabel) ==
  /\ UNCHANGED << rendererVars, loaderVars >>
  /\ ~Crashed /\ ~ModalOpen
  /\ LET Labelled(r) == r.label = roomLabel
         room == Find(SelectSeq(RoomGroups, Labelled))
     IN currentPano' = IF IsSome(room) THEN Get(room).primaryPano
                       ELSE currentPano
  /\ handler' = "handleRoomChange"
  /\ clickEvent' = None
  /\ NoStoreCall
  /\ FormUnchanged
  /\ UNCHANGED << isEditMode, editModeType, showComponentEditor,
                  showNavMarkerEditor, editingComponent >>
  /\ ViewerAfterNavigation

\* handleMarkerClick(destinationRoom), on a rendered destination
HandleMarkerClick(destinationRoom) ==
  /\ UNCHANGED << rendererVars, loaderVars >>
  /\ ~Crashed /\ ~ModalOpen
  /\ LET Matches(p) == Normalize(p.label) = Normalize(destinationRoom)
         targetPano == Find(SelectSeq(AllPanos, Matches))
     IN currentPano' = IF IsSome(targetPano) THEN Get(targetPano)
                       ELSE currentPano
  /\ handler' = "handleMarkerClick"
  /\ clickEvent' = None
  /\ NoStoreCall
  /\ FormUnchanged
  /\ UNCHANGED << isEditMode, editModeType, showComponentEditor,
                  showNavMarkerEditor, editingComponent >>
  /\ ViewerAfterNavigation

\* The rounded hits of the pointer's ray on the sphere: (-0, 50, 0) and
\* (30, -40, 0).
PickPoints ==
  Positions \cup { << Num(FALSE, 3000), Num(TRUE, 4000), Num(FALSE, 0) >> }

\* handleMouseMove: in edit mode the ray's hit on the sphere, rounded,
\* becomes hoveredCoords (the listener is on window).
HandleMouseMove(point) ==
  /\ UNCHANGED << rendererVars, loaderVars >>
  /\ ~Crashed
  /\ isEditMode
  /\ hoveredCoords' = Some(point)
  /\ UNCHANGED << roomComponents, navMarkers, markerPos, componentPos >>
  /\ handler' = "handleMouseMove"
  /\ clickEvent' = None
  /\ NoStoreCall
  /\ FormUnchanged
  /\ UNCHANGED << currentPano, isEditMode, editModeType, showComponentEditor,
                  showNavMarkerEditor, editingComponent >>

\* A click handler that does not look at the Shift key.
ClickAcceptedWithoutShift(editMode, hovered, shiftKey) ==
  editMode /\ IsSome(hovered)

\* handleCanvasClick's condition
ClickAccepted(editMode, hovered, shiftKey) ==
  editMode /\ IsSome(hovered) /\ shiftKey

\* handleCoordinateClick(coords)
HandleCoordinateClick(coords) ==
  /\ selectedPosition' = Some(coords)
  /\ IF editModeType = "component"
       THEN showComponentEditor' = TRUE /\ UNCHANGED showNavMarkerEditor
       ELSE showNavMarkerEditor' = TRUE /\ UNCHANGED showComponentEditor
  /\ EditorsMounted(editingComponent)
  /\ handler' = "handleCoordinateClick"
  /\ UNCHANGED viewerVars
  /\ NoStoreCall
  /\ UNCHANGED << currentPano, isEditMode, editModeType, editingComponent >>

\* handleCanvasClick(event): a click on the canvas (a modal covers it);
\* outside edit mode no listener is registered.
HandleCanvasClick(shiftKey) ==
  /\ UNCHANGED << rendererVars, loaderVars >>
  /\ ~Crashed /\ ~ModalOpen
  /\ clickEvent' = Some([shiftKey |-> shiftKey])
  /\ IF ClickAccepted(isEditMode, hoveredCoords, shiftKey)
       THEN HandleCoordinateClick(Get(hoveredCoords))
       ELSE /\ handler' = "handleCanvasClick"
            /\ NoStoreCall
            /\ FormUnchanged
            /\ UNCHANGED << currentPano, isEditMode, editModeType,
                            showComponentEditor, showNavMarkerEditor,
                            editingComponent, viewerVars >>

\* handleEditComponent(component): the Edit button of a rendered annotation.
HandleEditComponent(c) ==
  /\ UNCHANGED << rendererVars, loaderVars >>
  /\ ~Crashed /\ ~ModalOpen
  /\ isEditMode
  /\ editingComponent' = Some(c)
  /\ selectedPosition' = Some(c.position)
  /\ showComponentEditor' = TRUE
  /\ EditorsMounted(Some(c))
  /\ handler' = "handleEditComponent"
  /\ clickEvent' = None
  /\ UNCHANGED viewerVars
  /\ NoStoreCall
  /\ UNCHANGED << currentPano, isEditMode, editModeType, showNavMarkerEditor >>

\* handleDeleteComponent(componentId), the confirm dialog accepted.
HandleDeleteComponent(componentId) ==
  /\ UNCHANGED << rendererVars, loaderVars >>
  /\ ~Crashed /\ ~ModalOpen
  /\ isEditMode
  /\ DeleteComponentCall(componentId)
  /\ handler' = "handleDeleteComponent"
  /\ clickEvent' = None
  /\ FormUnchanged
  /\ UNCHANGED << now, storageMode, nextId, navVars, currentPano, isEditMode,
                  editModeType, showComponentEditor, showNavMarkerEditor,
                  editingComponent >>
  /\ ViewerRemounted

\* handleResetXRComponents, the confirm dialog accepted.
HandleResetXRComponents ==
  /\ UNCHANGED << rendererVars, loaderVars >>
  /\ ~Crashed /\ ~ModalOpen
  /\ isEditMode
  /\ ClearAllComponentsCall
  /\ handler' = "handleResetXRComponents"
  /\ clickEvent' = None
  /\ FormUnchanged
  /\ UNCHANGED << now, storageMode, nextId, navVars, currentPano, isEditMode,
                  editModeType, showComponentEditor, showNavMarkerEditor,
                  editingComponent >>
  /\ ViewerRemounted

\* Type buttons that stay enabled during an edit.
HandleTypeChangeEnabled(type) ==
  /\ UNCHANGED << rendererVars, loaderVars >>
  /\ ~Crashed /\ showComponentEditor
  /\ selectedType' = Some(type)
  /\ componentData' = Some(COMPONENT_TEMPLATES[type].data)
  /\ handler' = "handleTypeChange"
  /\ clickEvent' = None
  /\ UNCHANGED viewerVars
  /\ NoStoreCall
  /\ UNCHANGED << currentPano, isEditMode, editModeType, showComponentEditor,
                  showNavMarkerEditor, selectedPosition, editingComponent,
                  selectedRoom, error >>

\* handleTypeChange(type): the type buttons are disabled during an edit.
HandleTypeChange(type) ==
  /\ UNCHANGED << rendererVars, loaderVars >>
  /\ ~Crashed /\ showComponentEditor
  /\ ~IsSome(editingComponent)
  /\ selectedType' = Some(type)
  /\ componentData' = Some(COMPONENT_TEMPLATES[type].data)
  /\ handler' = "handleTypeChange"
  /\ clickEvent' = None
  /\ UNCHANGED viewerVars
  /\ NoStoreCall
  /\ UNCHANGED << currentPano, isEditMode, editModeType, showComponentEditor,
                  showNavMarkerEditor, selectedPosition, editingComponent,
                  selectedRoom, error >>

\* onChange of the title field: setComponentData({...componentData, title})
SetTitle(title) ==
  /\ UNCHANGED << rendererVars, loaderVars >>
  /\ ~Crashed /\ showComponentEditor
  /\ componentData' = Some(Spread(Get(componentData), [title |-> title]))
  /\ handler' = "setComponentData"
  /\ clickEvent' = None
  /\ UNCHANGED viewerVars
  /\ NoStoreCall
  /\ UNCHANGED << currentPano, isEditMode, editModeType, showComponentEditor,
                  showNavMarkerEditor, selectedPosition, editingComponent,
                  selectedType, selectedRoom, error >>

\* A form that stays open after the commit.
ComponentEditorStaysOpen ==
  UNCHANGED << showComponentEditor, editingComponent, selectedPosition,
               selectedType, componentData, selectedRoom, error, currentPano,
               isEditMode, editModeType, showNavMarkerEditor >>

\* The session after a commit or a cancel of the annotation form.
\* A close of the annotation form that keeps the annotation under edit.
ComponentEditorClosedKeepsEditing ==
  /\ showComponentEditor' = FALSE
  /\ editingComponent' = editingComponent
  /\ EditorsUnmounted
  /\ UNCHANGED << currentPano, isEditMode, editModeType, showNavMarkerEditor >>

ComponentEditorClosed ==
  /\ showComponentEditor' = FALSE
  /\ editingComponent' = None
  /\ EditorsUnmounted
  /\ UNCHANGED << currentPano, isEditMode, editModeType, showNavMarkerEditor >>

\* ComponentEditor.handleSave: onSave (handleSaveComponent), then onClose.
\* An exception of addComponent leaves the handlers before any setState.
ComponentEditorSave ==
  /\ UNCHANGED << rendererVars, loaderVars >>
  /\ ~Crashed /\ showComponentEditor
  /\ handler' = "handleSaveComponent"
  /\ clickEvent' = None
  /\ LET saved == [roomLabel |-> currentPano.label,
                   type |-> Get(selectedType),
                   position |-> Get(selectedPosition),
                   data |-> Get(componentData)]
     IN IF IsSome(editingComponent)
          THEN /\ UpdateComponentCall(Get(editingComponent).id, saved)
               /\ ComponentEditorClosed
               /\ UNCHANGED << now, storageMode, nextId, navVars >>
               /\ ViewerRemounted
          ELSE /\ nextId + nextMarkerId < MaxCommits
               /\ AddComponentCall(Spread(saved, [id |-> nextId + 1,
                                                  createdAt |-> now]))
               /\ nextId' = nextId + 1
               /\ now' = now + ClockStepMs
               /\ UNCHANGED << storageMode, navVars >>
               /\ IF AddThrows(lsComponents)
                    THEN UNCHANGED << currentPano, isEditMode, editModeType,
                                      showComponentEditor, showNavMarkerEditor,
                                      selectedPosition, editingComponent,
                                      selectedType, componentData,
                                      selectedRoom, error, viewerVars >>
                    ELSE ComponentEditorClosed /\ ViewerRemounted

\* onClose of the annotation form: close button, Cancel, backdrop.
ComponentEditorClose ==
  /\ UNCHANGED << rendererVars, loaderVars >>
  /\ ~Crashed /\ showComponentEditor
  /\ ComponentEditorClosed
  /\ handler' = "ComponentEditor.onClose"
  /\ clickEvent' = None
  /\ UNCHANGED viewerVars
  /\ NoStoreCall

\* onChange of the destination select (the placeholder option is "").
SelectRoom(room) ==
  /\ UNCHANGED << rendererVars, loaderVars >>
  /\ ~Crashed /\ showNavMarkerEditor
  /\ selectedRoom' = Some(room)
  /\ error' = Some(FALSE)
  /\ handler' = "setSelectedRoom"
  /\ clickEvent' = None
  /\ UNCHANGED viewerVars
  /\ NoStoreCall
  /\ UNCHANGED << currentPano, isEditMode, editModeType, showComponentEditor,
                  showNavMarkerEditor, selectedPosition, editingComponent,
                  selectedType, componentData >>

\* The error state after a submit that keeps the editor.
ErrorKept(room, err) == err

\* The error state after handleSave found no selected room.
ErrorAfterRejectedSave(room, err) == Some(TRUE)

\* addNavigationMarker(marker)
AddNavigationMarkerCall(marker) ==
  /\ lsMarkers' = IF KeepsForeign(lsMarkers) THEN lsMarkers
                  ELSE SavedMarkersItem(AddedMarker(LoadNavigationMarkers, marker))
  /\ lastCall' = [op |-> "addNavigationMarker", marker |-> marker,
                  threw |-> AddThrows(lsMarkers)]

\* The session after a commit or a cancel of the navigation form.
NavMarkerEditorClosed ==
  /\ showNavMarkerEditor' = FALSE
  /\ EditorsUnmounted
  /\ UNCHANGED << currentPano, isEditMode, editModeType, showComponentEditor,
                  editingComponent >>

\* NavigationMarkerEditor.handleSave, with onSave = handleSaveNavMarker
NavMarkerEditorSave ==
  /\ UNCHANGED << rendererVars, loaderVars >>
  /\ ~Crashed /\ showNavMarkerEditor
  /\ handler' = "NavigationMarkerEditor.handleSave"
  /\ clickEvent' = None
  /\ IF Get(selectedRoom) = <<>>
       THEN /\ error' = ErrorAfterRejectedSave(Get(selectedRoom), error)
            /\ NoStoreCall
            /\ UNCHANGED << currentPano, isEditMode, editModeType,
                            showComponentEditor, showNavMarkerEditor,
                            selectedPosition, editingComponent, selectedType,
                            componentData, selectedRoom, viewerVars >>
       ELSE /\ nextId + nextMarkerId < MaxCommits
            /\ AddNavigationMarkerCall(
                 [fromRoom |-> currentPano.label, toRoom |-> Get(selectedRoom),
                  position |-> Get(selectedPosition),
                  id |-> nextMarkerId + 1, createdAt |-> now])
            /\ nextMarkerId' = nextMarkerId + 1
            /\ now' = now + ClockStepMs
            /\ UNCHANGED << lsComponents, storageMode, nextId >>
            /\ IF AddThrows(lsMarkers)
                 THEN UNCHANGED << currentPano, isEditMode, editModeType,
                                   showComponentEditor, showNavMarkerEditor,
                                   selectedPosition, editingComponent,
                                   selectedType, componentData, selectedRoom,
                                   error, viewerVars >>
                 ELSE NavMarkerEditorClosed /\ ViewerRemounted

\* onClose of the navigation form: close button, Cancel, backdrop.
NavMarkerEditorClose ==
  /\ UNCHANGED << rendererVars, loaderVars >>
  /\ ~Crashed /\ showNavMarkerEditor
  /\ NavMarkerEditorClosed
  /\ handler' = "NavigationMarkerEditor.onClose"
  /\ clickEvent' = None
  /\ UNCHANGED viewerVars
  /\ NoStoreCall

\* The store of a fresh origin, with the renderer not mounted.
StoreInit ==
  /\ now = StartMs
  /\ lsComponents = None
  /\ storageMode \in {"ok", "full", "unavailable"}
  /\ nextId = 0
  /\ lastCall = [op |-> "none"]
  /\ mounted = FALSE
  /\ inst = 0
  /\ component = [type |-> "infobox", data |-> [title |-> "declared", text |-> "body"]]
  /\ apiData = None
  /\ apiStatus = "idle"
  /\ apiError = None
  /\ lastFetched = None
  /\ isExpanded = FALSE
  /\ intervalRef = None
  /\ timers = {}
  /\ nextTimerId = 1
  /\ pending = {}
  /\ nIssued = 0
  /\ autoFetches = 0
  /\ lastApplied = 0
  /\ staleShown = FALSE
  /\ lastGood = None
  /\ ev = "init"
  /\ lsMarkers = None
  /\ nextMarkerId = 0
  /\ currentPano = StartPano
  /\ isEditMode = FALSE
  /\ editModeType = "component"
  /\ showComponentEditor = FALSE
  /\ showNavMarkerEditor = FALSE
  /\ selectedPosition = None
  /\ editingComponent = None
  /\ selectedType = None
  /\ componentData = None
  /\ selectedRoom = None
  /\ error = None
  /\ handler = "none"
  /\ clickEvent = None
  /\ zindData = <<>>
  /\ parsed = None
  /\ cache = << >>
  /\ loadingPromises = << >>
  /\ loads = {}
  /\ nextLoad = 0
  /\ clearCalls = 0
  /\ textureCall = [op |-> "none"]
  /\ phase = "done"
  /\ loading = FALSE
  /\ tourError = None
  /\ loadingProgress = [loaded |-> Len(AllPanos), total |-> Len(AllPanos)]
  /\ pendingImages = {}
  /\ failedImages = {}
  /\ loaded = Len(AllPanos)
  /\ progressCalls = [k \in 1..Len(AllPanos) |-> [loaded |-> k, total |-> Len(AllPanos)]]
  /\ hoveredCoords = None
  /\ roomComponents = <<>>
  /\ navMarkers = <<>>
  /\ markerPos = None
  /\ componentPos = None

StoreNext ==
  \/ \E l \in RoomLabels, p \in Positions, f \in FormData : AddComponent(l, p, f)
  \/ \E c \in Stored : \E u \in UpdatesFor(c) : UpdateComponent(c.id, u)
  \/ \E id \in 1..nextId : DeleteComponent(id)
  \/ ClearAllComponents
  \/ StorageFills
  \/ StorageFrees

SpecStore == StoreInit /\ [][StoreNext]_vars

\* No instance mounted yet, with the store left alone.
ApiInit ==
  /\ now = StartMs
  /\ mounted = FALSE
  /\ inst = 0
  /\ component = [type |-> "infobox", data |-> [title |-> "declared", text |-> "body"]]
  /\ apiData = None
  /\ apiStatus = "idle"
  /\ apiError = None
  /\ lastFetched = None
  /\ isExpanded = FALSE
  /\ intervalRef = None
  /\ timers = {}
  /\ nextTimerId = 1
  /\ pending = {}
  /\ nIssued = 0
  /\ autoFetches = 0
  /\ lastApplied = 0
  /\ staleShown = FALSE
  /\ lastGood = None
  /\ ev = "init"
  /\ lsMarkers = None
  /\ nextMarkerId = 0
  /\ currentPano = StartPano
  /\ isEditMode = FALSE
  /\ editModeType = "component"
  /\ showComponentEditor = FALSE
  /\ showNavMarkerEditor = FALSE
  /\ selectedPosition = None
  /\ editingComponent = None
  /\ selectedType = None
  /\ componentData = None
  /\ selectedRoom = None
  /\ error = None
  /\ handler = "none"
  /\ clickEvent = None
  /\ zindData = <<>>
  /\ parsed = None
  /\ cache = << >>
  /\ loadingPromises = << >>
  /\ loads = {}
  /\ nextLoad = 0
  /\ clearCalls = 0
  /\ textureCall = [op |-> "none"]
  /\ phase = "done"
  /\ loading = FALSE
  /\ tourError = None
  /\ loadingProgress = [loaded |-> Len(AllPanos), total |-> Len(AllPanos)]
  /\ pendingImages = {}
  /\ failedImages = {}
  /\ loaded = Len(AllPanos)
  /\ progressCalls = [k \in 1..Len(AllPanos) |-> [loaded |-> k, total |-> Len(AllPanos)]]
  /\ hoveredCoords = None
  /\ roomComponents = <<>>
  /\ navMarkers = <<>>
  /\ markerPos = None
  /\ componentPos = None
  /\ lsComponents = None
  /\ storageMode = "ok"
  /\ nextId = 0
  /\ lastCall = [op |-> "none"]

ApiNext ==
  \/ \E c \in RenderedComponents : Mount(c)
  \/ Unmount
  \/ \E c \in RenderedComponents : Reconfigure(c)
  \/ \E t \in timers : IntervalTick(t)
  \/ \E f \in pending, j \in Jsons : FetchResolve(f, j)
  \/ \E f \in pending, e \in FetchErrors : FetchReject(f, e)
  \/ RetryClick
  \/ ToggleExpanded
  \/ AdvanceTime

SpecApi == ApiInit /\ [][ApiNext]_vars
\* ------------------------------------------------ PanoramaViewer render
\* The radius of the panorama sphere and of the rendered positions, in
\* hundredths.
SphereRadius == 5000

RenderRadius == 4800

\* The rounding error allowed in a rendered coordinate, in hundredths.
RoundingSlack == 3

\* a / b rounded to the nearest integer, for a >= 0 and b > 0.
DivRounded(a, b) == (2 * a + b) \div (2 * b)

\* Math.sqrt(n), rounded to the nearest hundredth (n in hundredths squared).
Sqrt(n) ==
  CHOOSE r \in 0..(2 * SphereRadius) :
    /\ (2 * r - 1) * (2 * r - 1) <= 4 * n
    /\ 4 * n < (2 * r + 1) * (2 * r + 1)

\* 0 / 0
NaN == [neg |-> FALSE, mag |-> -1]

\* A render position that is the stored position.
ScaledNot(v) == v

\* [x / length * 48, y / length * 48, z / length * 48] with
\* length = Math.sqrt(x * x + y * y + z * z): the quotient is kept in
\* ten-thousandths, the product in hundredths; the sign is the coordinate's.
Scaled(v) ==
  LET length == Sqrt(v[1].mag * v[1].mag + v[2].mag * v[2].mag + v[3].mag * v[3].mag)
      N(x) == DivRounded(x.mag * 10000, length)
  IN [i \in 1..3 |->
        IF length = 0 THEN NaN
        ELSE Num(v[i].neg, DivRounded(N(v[i]) * RenderRadius, 10000))]

\* PanoramaViewer's render: the positions of the destinations and of the
\* room's annotations are computed from the memoized lists.
Render ==
  /\ UNCHANGED << rendererVars, loaderVars >>
  /\ ~Crashed
  /\ markerPos' = Some([i \in 1..Len(RenderedDestinations) |->
                          Scaled(RenderedDestinations[i].coords)])
  /\ componentPos' = Some([i \in 1..Len(roomComponents) |->
                             Scaled(roomComponents[i].position)])
  /\ handler' = "PanoramaViewer"
  /\ clickEvent' = None
  /\ NoStoreCall
  /\ FormUnchanged
  /\ UNCHANGED << currentPano, isEditMode, editModeType, showComponentEditor,
                  showNavMarkerEditor, editingComponent, hoveredCoords,
                  roomComponents, navMarkers >>

\* The tour after loading, on a fresh origin whose storage accepts writes.
TourInit ==
  /\ now = StartMs
  /\ lsComponents = None
  /\ storageMode = "ok"
  /\ nextId = 0
  /\ lastCall = [op |-> "none"]
  /\ mounted = FALSE
  /\ inst = 0
  /\ component = [type |-> "infobox", data |-> [title |-> "declared", text |-> "body"]]
  /\ apiData = None
  /\ apiStatus = "idle"
  /\ apiError = None
  /\ lastFetched = None
  /\ isExpanded = FALSE
  /\ intervalRef = None
  /\ timers = {}
  /\ nextTimerId = 1
  /\ pending = {}
  /\ nIssued = 0
  /\ autoFetches = 0
  /\ lastApplied = 0
  /\ staleShown = FALSE
  /\ lastGood = None
  /\ ev = "init"
  /\ lsMarkers = None
  /\ nextMarkerId = 0
  /\ currentPano = StartPano
  /\ isEditMode = FALSE
  /\ editModeType = "component"
  /\ showComponentEditor = FALSE
  /\ showNavMarkerEditor = FALSE
  /\ selectedPosition = None
  /\ editingComponent = None
  /\ selectedType = None
  /\ componentData = None
  /\ selectedRoom = None
  /\ error = None
  /\ handler = "none"
  /\ clickEvent = None
  /\ zindData = <<>>
  /\ parsed = None
  /\ cache = << >>
  /\ loadingPromises = << >>
  /\ loads = {}
  /\ nextLoad = 0
  /\ clearCalls = 0
  /\ textureCall = [op |-> "none"]
  /\ phase = "done"
  /\ loading = FALSE
  /\ tourError = None
  /\ loadingProgress = [loaded |-> Len(AllPanos), total |-> Len(AllPanos)]
  /\ pendingImages = {}
  /\ failedImages = {}
  /\ loaded = Len(AllPanos)
  /\ progressCalls = [k \in 1..Len(AllPanos) |-> [loaded |-> k, total |-> Len(AllPanos)]]
  /\ hoveredCoords = None
  /\ roomComponents = <<>>
  /\ navMarkers = <<>>
  /\ markerPos = None
  /\ componentPos = None

TourNext ==
  \/ ToggleEditMode
  \/ \E type \in {"component", "navigation"} : SetEditModeType(type)
  \/ \E i \in 1..Len(AvailableRooms) : HandleRoomChange(AvailableRooms[i])
  \/ \E i \in 1..Len(RenderedDestinations) :
       HandleMarkerClick(RenderedDestinations[i].room)
  \/ \E point \in Positions : HandleMouseMove(point)
  \/ \E shiftKey \in BOOLEAN : HandleCanvasClick(shiftKey)
  \/ \E i \in 1..Len(roomComponents) : HandleEditComponent(roomComponents[i])
  \/ \E i \in 1..Len(roomComponents) : HandleDeleteComponent(roomComponents[i].id)
  \/ HandleResetXRComponents
  \/ \E type \in ComponentTypes : HandleTypeChange(type)
  \/ \E title \in Titles : SetTitle(title)
  \/ ComponentEditorSave
  \/ ComponentEditorClose
  \/ \E room \in {<<>>} \cup { DestinationOptions(currentPano.label)[i] :
                                 i \in 1..Len(DestinationOptions(currentPano.label)) } :
       SelectRoom(room)
  \/ NavMarkerEditorSave
  \/ NavMarkerEditorClose

SpecTour == TourInit /\ [][TourNext]_vars

\* The placement cycle of an edit session with two pick points: pointer
\* movement, clicks, mode switches, navigation, reset and cancel.
PlacementNext ==
  \/ ToggleEditMode
  \/ \E type \in {"component", "navigation"} : SetEditModeType(type)
  \/ \E i \in 1..Len(AvailableRooms) : HandleRoomChange(AvailableRooms[i])
  \/ \E i \in 1..Len(RenderedDestinations) :
       HandleMarkerClick(RenderedDestinations[i].room)
  \/ \E point \in PickPoints : HandleMouseMove(point)
  \/ \E shiftKey \in BOOLEAN : HandleCanvasClick(shiftKey)
  \/ HandleResetXRComponents
  \/ ComponentEditorClose
  \/ NavMarkerEditorClose

SpecPlacement == TourInit /\ [][PlacementNext]_vars

\* The tour after loading, on an origin whose two keys are absent or hold
\* text the stores did not write.
CorruptInit ==
  /\ now = StartMs
  /\ lsComponents \in {None} \cup { Some(text) : text \in ForeignTexts }
  /\ storageMode = "ok"
  /\ nextId = 0
  /\ lastCall = [op |-> "none"]
  /\ mounted = FALSE
  /\ inst = 0
  /\ component = [type |-> "infobox", data |-> [title |-> "declared", text |-> "body"]]
  /\ apiData = None
  /\ apiStatus = "idle"
  /\ apiError = None
  /\ lastFetched = None
  /\ isExpanded = FALSE
  /\ intervalRef = None
  /\ timers = {}
  /\ nextTimerId = 1
  /\ pending = {}
  /\ nIssued = 0
  /\ autoFetches = 0
  /\ lastApplied = 0
  /\ staleShown = FALSE
  /\ lastGood = None
  /\ ev = "init"
  /\ lsMarkers \in {None} \cup { Some(text) : text \in ForeignTexts }
  /\ nextMarkerId = 0
  /\ currentPano = StartPano
  /\ isEditMode = FALSE
  /\ editModeType = "component"
  /\ showComponentEditor = FALSE
  /\ showNavMarkerEditor = FALSE
  /\ selectedPosition = None
  /\ editingComponent = None
  /\ selectedType = None
  /\ componentData = None
  /\ selectedRoom = None
  /\ error = None
  /\ handler = "none"
  /\ clickEvent = None
  /\ zindData = <<>>
  /\ parsed = None
  /\ cache = << >>
  /\ loadingPromises = << >>
  /\ loads = {}
  /\ nextLoad = 0
  /\ clearCalls = 0
  /\ textureCall = [op |-> "none"]
  /\ phase = "done"
  /\ loading = FALSE
  /\ tourError = None
  /\ loadingProgress = [loaded |-> Len(AllPanos), total |-> Len(AllPanos)]
  /\ pendingImages = {}
  /\ failedImages = {}
  /\ loaded = Len(AllPanos)
  /\ progressCalls = [k \in 1..Len(AllPanos) |-> [loaded |-> k, total |-> Len(AllPanos)]]
  /\ hoveredCoords = None
  /\ roomComponents = <<>>
  /\ navMarkers = <<>>
  /\ markerPos = None
  /\ componentPos = None

SpecCorrupt == CorruptInit /\ [][TourNext]_vars

\* Points of the sphere of radius 50 that earlier sessions picked.
StoredPoints ==
  PickPoints \cup { << Num(FALSE, 1200), Num(TRUE, 1600), Num(TRUE, 4583) >> }

\* The position lists of the seeded stores: up to two pick points.
PositionLists ==
  {<<>>} \cup { <<p>> : p \in StoredPoints }
  \cup { <<p, q>> : p \in StoredPoints, q \in StoredPoints }

\* The item the annotation store wrote in an earlier session: infoboxes
\* placed in the living room at the positions of the list.
SeededComponents(list) ==
  IF list = <<>> THEN None
  ELSE Some(Stringify(
         [room \in {<<"living room">>} |->
            [i \in 1..Len(list) |->
               [id |-> i, roomLabel |-> <<"living room">>, type |-> "infobox",
                position |-> list[i],
                data |-> COMPONENT_TEMPLATES.infobox.data, createdAt |-> i]]]))

\* The item the marker store wrote in an earlier session: markers to the
\* hallway placed in the panorama "Living Room ".
SeededMarkers(list) ==
  IF list = <<>> THEN None
  ELSE Some(Stringify(
         [room \in {<<"Living Room", " ">>} |->
            [i \in 1..Len(list) |->
               [id |-> i, fromRoom |-> <<"Living Room", " ">>,
                toRoom |-> <<"hallway">>, position |-> list[i],
                createdAt |-> i]]]))

\* The tour on an origin whose stores were written in earlier sessions,
\* showing any panorama.
RenderInit ==
  /\ now = StartMs
  /\ lsComponents \in { SeededComponents(list) : list \in PositionLists }
  /\ storageMode = "ok"
  /\ nextId = Cardinality(Stored)
  /\ lastCall = [op |-> "none"]
  /\ mounted = FALSE
  /\ inst = 0
  /\ component = [type |-> "infobox", data |-> [title |-> "declared", text |-> "body"]]
  /\ apiData = None
  /\ apiStatus = "idle"
  /\ apiError = None
  /\ lastFetched = None
  /\ isExpanded = FALSE
  /\ intervalRef = None
  /\ timers = {}
  /\ nextTimerId = 1
  /\ pending = {}
  /\ nIssued = 0
  /\ autoFetches = 0
  /\ lastApplied = 0
  /\ staleShown = FALSE
  /\ lastGood = None
  /\ ev = "init"
  /\ lsMarkers \in { SeededMarkers(list) : list \in PositionLists }
  /\ nextMarkerId = Cardinality(StoredMarkers)
  /\ currentPano \in { AllPanos[i] : i \in 1..Len(AllPanos) }
  /\ isEditMode = FALSE
  /\ editModeType = "component"
  /\ showComponentEditor = FALSE
  /\ showNavMarkerEditor = FALSE
  /\ selectedPosition = None
  /\ editingComponent = None
  /\ selectedType = None
  /\ componentData = None
  /\ selectedRoom = None
  /\ error = None
  /\ handler = "none"
  /\ clickEvent = None
  /\ zindData = <<>>
  /\ parsed = None
  /\ cache = << >>
  /\ loadingPromises = << >>
  /\ loads = {}
  /\ nextLoad = 0
  /\ clearCalls = 0
  /\ textureCall = [op |-> "none"]
  /\ phase = "done"
  /\ loading = FALSE
  /\ tourError = None
  /\ loadingProgress = [loaded |-> Len(AllPanos), total |-> Len(AllPanos)]
  /\ pendingImages = {}
  /\ failedImages = {}
  /\ loaded = Len(AllPanos)
  /\ progressCalls = [k \in 1..Len(AllPanos) |-> [loaded |-> k, total |-> Len(AllPanos)]]
  /\ hoveredCoords = None
  /\ roomComponents = RoomComponents
  /\ navMarkers = NavMarkers
  /\ markerPos = None
  /\ componentPos = None

\* The viewer renders, and the user moves between panoramas.
RenderNext ==
  \/ Render
  \/ \E i \in 1..Len(AvailableRooms) : HandleRoomChange(AvailableRooms[i])
  \/ \E i \in 1..Len(RenderedDestinations) :
       HandleMarkerClick(RenderedDestinations[i].room)

SpecRender == RenderInit /\ [][RenderNext]_vars

\* ---------------------------------------------------------- zindDataParser
\* Entries of the data file a call parses.
MaxEntries == 2

\* "pano_"
PanoPrefix == << "p", "a", "n", "o", "_" >>

\* String.prototype.startsWith
StartsWith(string, prefix) ==
  /\ Len(string) >= Len(prefix)
  /\ SubSeq(string, 1, Len(prefix)) = prefix

\* a || b for a string field that may be omitted: "" is falsy.
OrString(field, default) ==
  IF IsSome(field) /\ Get(field) # <<>> THEN Get(field) ELSE default

\* a || b for a number field that may be omitted: 0 is falsy.
OrNumber(field, default) ==
  IF IsSome(field) /\ Get(field) # 0 THEN Get(field) ELSE default

\* a || b for a boolean field that may be omitted: false is falsy.
OrBoolean(field, default) ==
  IF IsSome(field) /\ Get(field) THEN Get(field) ELSE default

\* The object pushed for one entry (heights in hundredths).
ParsedPano(entry) ==
  LET panoData == entry.panoData
  IN [id |-> << entry.floorId, "_", entry.completeRoomId, "_",
                entry.partialRoomId, "_" >> \o entry.panoId,
      label |-> OrString(panoData.label, <<"Unknown Room">>),
      imagePath |-> << "/360Assets/", panoData.image_path >>,
      floorNumber |-> OrNumber(panoData.floor_number, 1),
      panoId |-> entry.panoId,
      cameraHeight |-> OrNumber(panoData.camera_height, 150),
      ceilingHeight |-> OrNumber(panoData.ceiling_height, 250),
      isPrimary |-> OrBoolean(panoData.is_primary, FALSE),
      isInside |-> OrBoolean(panoData.is_inside, TRUE)]

\* parseZindData(data), data given as its entries in iteration order.
RECURSIVE ParseZindData(_)
ParseZindData(data) ==
  IF data = <<>> THEN <<>>
  ELSE LET entry == data[Len(data)]
           panos == ParseZindData(SubSeq(data, 1, Len(data) - 1))
       IN IF StartsWith(entry.panoId, PanoPrefix)
            THEN Append(panos, ParsedPano(entry))
            ELSE panos

\* Keys of a partial room: panorama keys and others.
PanoIds ==
  { PanoPrefix \o <<"0">>, PanoPrefix, << "p", "a", "n", "o" >>,
    << "x" >> \o PanoPrefix, << "P", "a", "n", "o", "_", "0" >> }

\* The values of the keys, each optional field supplied or omitted.
PanoDatas ==
  [label : { None, Some(<<>>), Some(<<"kitchen">>) },
   image_path : { "a.jpg" },
   floor_number : { None, Some(0), Some(2) },
   camera_height : { None, Some(160) },
   ceiling_height : { None, Some(300) },
   is_primary : { None, Some(FALSE), Some(TRUE) },
   is_inside : { None, Some(FALSE), Some(TRUE) }]

\* The entries of the first partial room of the file.
Entries ==
  { [floorId |-> "floor_01", completeRoomId |-> "complete_room_0",
     partialRoomId |-> "partial_room_0", panoId |-> id, panoData |-> d] :
      id \in PanoIds, d \in PanoDatas }

\* An entry of a second partial room, all of its fields supplied.
LaterEntries ==
  { [floorId |-> "floor_01", completeRoomId |-> "complete_room_0",
     partialRoomId |-> "partial_room_1", panoId |-> id,
     panoData |-> [label |-> Some(<<"hallway">>), image_path |-> "b.jpg",
                   floor_number |-> Some(2), camera_height |-> Some(160),
                   ceiling_height |-> Some(300), is_primary |-> Some(TRUE),
                   is_inside |-> Some(TRUE)]] :
      id \in PanoIds }

\* Data files of up to MaxEntries entries.
ZindInputs ==
  { data \in {<<>>} \cup { <<a>> : a \in Entries }
              \cup { <<a, b>> : a \in Entries, b \in LaterEntries } :
      Len(data) <= MaxEntries }

\* const panos = parseZindData(data)
ParsePanos ==
  /\ parsed = None
  /\ parsed' = Some(ParseZindData(zindData))
  /\ UNCHANGED << zindData, textureVars, loadDataVars, apiVars, storeVars, tourVars >>

\* The tour before loadData's call of parseZindData, for any data file.
ParseInit ==
  /\ now = StartMs
  /\ lsComponents = None
  /\ storageMode = "ok"
  /\ nextId = 0
  /\ lastCall = [op |-> "none"]
  /\ mounted = FALSE
  /\ inst = 0
  /\ component = [type |-> "infobox", data |-> [title |-> "declared", text |-> "body"]]
  /\ apiData = None
  /\ apiStatus = "idle"
  /\ apiError = None
  /\ lastFetched = None
  /\ isExpanded = FALSE
  /\ intervalRef = None
  /\ timers = {}
  /\ nextTimerId = 1
  /\ pending = {}
  /\ nIssued = 0
  /\ autoFetches = 0
  /\ lastApplied = 0
  /\ staleShown = FALSE
  /\ lastGood = None
  /\ ev = "init"
  /\ lsMarkers = None
  /\ nextMarkerId = 0
  /\ currentPano = StartPano
  /\ isEditMode = FALSE
  /\ editModeType = "component"
  /\ showComponentEditor = FALSE
  /\ showNavMarkerEditor = FALSE
  /\ selectedPosition = None
  /\ editingComponent = None
  /\ selectedType = None
  /\ componentData = None
  /\ selectedRoom = None
  /\ error = None
  /\ handler = "none"
  /\ clickEvent = None
  /\ zindData \in ZindInputs
  /\ parsed = None
  /\ cache = << >>
  /\ loadingPromises = << >>
  /\ loads = {}
  /\ nextLoad = 0
  /\ clearCalls = 0
  /\ textureCall = [op |-> "none"]
  /\ phase = "done"
  /\ loading = FALSE
  /\ tourError = None
  /\ loadingProgress = [loaded |-> Len(AllPanos), total |-> Len(AllPanos)]
  /\ pendingImages = {}
  /\ failedImages = {}
  /\ loaded = Len(AllPanos)
  /\ progressCalls = [k \in 1..Len(AllPanos) |-> [loaded |-> k, total |-> Len(AllPanos)]]
  /\ hoveredCoords = None
  /\ roomComponents = <<>>
  /\ navMarkers = <<>>
  /\ markerPos = None
  /\ componentPos = None

ParseNext == ParsePanos

SpecParse == ParseInit /\ [][ParseNext]_vars

\* ------------------------------------------------------------ TextureCache
\* Loads one run starts, and calls of clear() in it.
MaxLoads == 3

MaxClears == 1

\* The image paths the callers ask for.
ImagePaths == { "/360Assets/a.jpg", "/360Assets/b.jpg" }

\* Map.prototype.set
MapSet(map, key, value) ==
  [k \in DOMAIN map \cup {key} |-> IF k = key THEN value ELSE map[k]]

\* Map.prototype.delete
MapDelete(map, key) == [k \in DOMAIN map \ {key} |-> map[k]]

\* A getTexture that starts a load whenever the path is not cached.
GetTextureUnshared(imagePath) ==
  /\ IF imagePath \in DOMAIN cache
       THEN /\ textureCall' = [op |-> "getTexture", path |-> imagePath,
                               from |-> "cache", value |-> cache[imagePath]]
            /\ UNCHANGED << loadingPromises, loads, nextLoad >>
       ELSE /\ nextLoad < MaxLoads
            /\ nextLoad' = nextLoad + 1
            /\ loads' = loads \cup { [id |-> nextLoad + 1, path |-> imagePath] }
            /\ loadingPromises' = MapSet(loadingPromises, imagePath, nextLoad + 1)
            /\ textureCall' = [op |-> "getTexture", path |-> imagePath,
                               from |-> "loadTexture", value |-> nextLoad + 1]
  /\ UNCHANGED << cache, clearCalls >>
  /\ UNCHANGED << parserVars, loadDataVars, apiVars, storeVars, tourVars >>

\* getTexture(imagePath) up to its await: the cached texture, the pending
\* promise of the path, or a new load whose promise is put in the map.
GetTexture(imagePath) ==
  /\ IF imagePath \in DOMAIN cache
       THEN /\ textureCall' = [op |-> "getTexture", path |-> imagePath,
                               from |-> "cache", value |-> cache[imagePath]]
            /\ UNCHANGED << loadingPromises, loads, nextLoad >>
       ELSE IF imagePath \in DOMAIN loadingPromises
         THEN /\ textureCall' = [op |-> "getTexture", path |-> imagePath,
                                 from |-> "loadingPromises",
                                 value |-> loadingPromises[imagePath]]
              /\ UNCHANGED << loadingPromises, loads, nextLoad >>
         ELSE /\ nextLoad < MaxLoads
              /\ nextLoad' = nextLoad + 1
              /\ loads' = loads \cup { [id |-> nextLoad + 1, path |-> imagePath] }
              /\ loadingPromises' = MapSet(loadingPromises, imagePath, nextLoad + 1)
              /\ textureCall' = [op |-> "getTexture", path |-> imagePath,
                                 from |-> "loadTexture", value |-> nextLoad + 1]
  /\ UNCHANGED << cache, clearCalls >>
  /\ UNCHANGED << parserVars, loadDataVars, apiVars, storeVars, tourVars >>

\* img.onload of a pending load and the continuation of the getTexture
\* call that started it: cache.set, loadingPromises.delete.
LoadResolves(load) ==
  /\ load \in loads
  /\ loads' = loads \ {load}
  /\ cache' = MapSet(cache, load.path, load.id)
  /\ loadingPromises' = MapDelete(loadingPromises, load.path)
  /\ textureCall' = [op |-> "onload", path |-> load.path, value |-> load.id]
  /\ UNCHANGED << nextLoad, clearCalls >>
  /\ UNCHANGED << parserVars, loadDataVars, apiVars, storeVars, tourVars >>

\* img.onerror of a pending load and the catch block of the getTexture
\* call that started it: loadingPromises.delete, rethrow.
LoadRejects(load) ==
  /\ load \in loads
  /\ loads' = loads \ {load}
  /\ loadingPromises' = MapDelete(loadingPromises, load.path)
  /\ textureCall' = [op |-> "onerror", path |-> load.path, value |-> load.id]
  /\ UNCHANGED << cache, nextLoad, clearCalls >>
  /\ UNCHANGED << parserVars, loadDataVars, apiVars, storeVars, tourVars >>

\* clear(): both maps are emptied; pending loads go on.
Clear ==
  /\ clearCalls < MaxClears
  /\ clearCalls' = clearCalls + 1
  /\ cache' = << >>
  /\ loadingPromises' = << >>
  /\ textureCall' = [op |-> "clear"]
  /\ UNCHANGED << loads, nextLoad >>
  /\ UNCHANGED << parserVars, loadDataVars, apiVars, storeVars, tourVars >>

\* The singleton after its construction.
TextureInit ==
  /\ now = StartMs
  /\ lsComponents = None
  /\ storageMode = "ok"
  /\ nextId = 0
  /\ lastCall = [op |-> "none"]
  /\ mounted = FALSE
  /\ inst = 0
  /\ component = [type |-> "infobox", data |-> [title |-> "declared", text |-> "body"]]
  /\ apiData = None
  /\ apiStatus = "idle"
  /\ apiError = None
  /\ lastFetched = None
  /\ isExpanded = FALSE
  /\ intervalRef = None
  /\ timers = {}
  /\ nextTimerId = 1
  /\ pending = {}
  /\ nIssued = 0
  /\ autoFetches = 0
  /\ lastApplied = 0
  /\ staleShown = FALSE
  /\ lastGood = None
  /\ ev = "init"
  /\ lsMarkers = None
  /\ nextMarkerId = 0
  /\ currentPano = StartPano
  /\ isEditMode = FALSE
  /\ editModeType = "component"
  /\ showComponentEditor = FALSE
  /\ showNavMarkerEditor = FALSE
  /\ selectedPosition = None
  /\ editingComponent = None
  /\ selectedType = None
  /\ componentData = None
  /\ selectedRoom = None
  /\ error = None
  /\ handler = "none"
  /\ clickEvent = None
  /\ zindData = <<>>
  /\ parsed = None
  /\ cache = << >>
  /\ loadingPromises = << >>
  /\ loads = {}
  /\ nextLoad = 0
  /\ clearCalls = 0
  /\ textureCall = [op |-> "none"]
  /\ phase = "done"
  /\ loading = FALSE
  /\ tourError = None
  /\ loadingProgress = [loaded |-> Len(AllPanos), total |-> Len(AllPanos)]
  /\ pendingImages = {}
  /\ failedImages = {}
  /\ loaded = Len(AllPanos)
  /\ progressCalls = [k \in 1..Len(AllPanos) |-> [loaded |-> k, total |-> Len(AllPanos)]]
  /\ hoveredCoords = None
  /\ roomComponents = <<>>
  /\ navMarkers = <<>>
  /\ markerPos = None
  /\ componentPos = None

TextureNext ==
  \/ \E imagePath \in ImagePaths : GetTexture(imagePath)
  \/ \E load \in loads : LoadResolves(load)
  \/ \E load \in loads : LoadRejects(load)
  \/ Clear

SpecTexture == TextureInit /\ [][TextureNext]_vars

\* ---------------------------------------------------------------- loadData
\* Panoramas of the data file loadData reads.
MaxImages == 4

\* A data file of n panoramas; the second is the living room's.
PanoFile(n) ==
  [i \in 1..n |->
     [floorId |-> "floor_01", completeRoomId |-> "complete_room_0",
      partialRoomId |-> <<"partial_room_", i>>,
      panoId |-> PanoPrefix \o <<i>>,
      panoData |-> [label |-> Some(IF i = 2 THEN <<"living room">>
                                            ELSE <<"hallway">>),
                    image_path |-> <<"pano_", i, ".jpg">>,
                    floor_number |-> Some(1), camera_height |-> Some(160),
                    ceiling_height |-> Some(300),
                    is_primary |-> IF i = 1 THEN None ELSE Some(TRUE),
                    is_inside |-> Some(TRUE)]]]

\* livingRoom?.primaryPano || rooms[0]?.primaryPano || panos[0]
StartPanoOf(panos) ==
  LET rooms == GroupPanosByRoom(panos)
      IsLivingRoom(r) == ToLowerCase(r.label) = <<"living room">>
      livingRoom == Find(SelectSeq(rooms, IsLivingRoom))
  IN IF IsSome(livingRoom) THEN Get(livingRoom).primaryPano
     ELSE IF rooms # <<>> THEN rooms[1].primaryPano
     ELSE None

\* The state of the tour that loadData and the preload do not set.
TourIdle ==
  UNCHANGED << zindData, textureVars, apiVars, storeVars, navVars, viewerVars,
               isEditMode, editModeType, showComponentEditor,
               showNavMarkerEditor, selectedPosition, editingComponent,
               selectedType, componentData, selectedRoom, error, handler,
               clickEvent >>

\* loadData after `await loadZindData()` resolves: the panoramas are
\* parsed, the start panorama and the progress are set and the preload
\* creates one Image per panorama; Promise.all of no promise resolves at
\* once.
LoadZindDataResolves ==
  /\ phase = "loadZindData"
  /\ \E panos \in { ParseZindData(zindData) } :
        /\ parsed' = Some(panos)
        /\ currentPano' = StartPanoOf(panos)
        /\ loadingProgress' = [loaded |-> 0, total |-> Len(panos)]
        /\ pendingImages' = 1..Len(panos)
        /\ phase' = IF panos = <<>> THEN "done" ELSE "preload"
        /\ loading' = (panos # <<>>)
  /\ UNCHANGED << tourError, failedImages, loaded, progressCalls >>
  /\ TourIdle

\* loadData's catch block: loadZindData threw (fetch failed, the response
\* was not ok or not JSON).
LoadZindDataRejects ==
  /\ phase = "loadZindData"
  /\ tourError' = Some("Failed to load data")
  /\ loading' = FALSE
  /\ phase' = "failed"
  /\ UNCHANGED << parsed, currentPano, loadingProgress, pendingImages,
                  failedImages, loaded, progressCalls >>
  /\ TourIdle

\* loaded++; onProgress(loaded, total); resolve() of one image, and the
\* continuation of loadData when it was the last one.
ImageReported(i) ==
  /\ phase = "preload"
  /\ i \in pendingImages
  /\ loaded' = loaded + 1
  /\ progressCalls' = Append(progressCalls,
                             [loaded |-> loaded + 1, total |-> Len(Get(parsed))])
  /\ loadingProgress' = [loaded |-> loaded + 1, total |-> Len(Get(parsed))]
  /\ pendingImages' = pendingImages \ {i}
  /\ phase' = IF pendingImages = {i} THEN "done" ELSE "preload"
  /\ loading' = (pendingImages # {i})
  /\ UNCHANGED << parsed, currentPano, tourError >>
  /\ TourIdle

\* img.onload
ImageLoads(i) ==
  /\ ImageReported(i)
  /\ UNCHANGED failedImages

\* An img.onerror that rejects the image's promise: Promise.all rejects
\* and loadData's catch block runs.
ImageErrorsRejecting(i) ==
  /\ phase = "preload"
  /\ i \in pendingImages
  /\ failedImages' = failedImages \cup {i}
  /\ pendingImages' = pendingImages \ {i}
  /\ tourError' = Some("Failed to preload image")
  /\ loading' = FALSE
  /\ phase' = "failed"
  /\ UNCHANGED << parsed, currentPano, loadingProgress, loaded, progressCalls >>
  /\ TourIdle

\* img.onerror
ImageErrors(i) ==
  /\ ImageReported(i)
  /\ failedImages' = failedImages \cup {i}

\* VirtualTour after its mount effect called loadData, for any data file.
LoadInit ==
  /\ now = StartMs
  /\ lsComponents = None
  /\ storageMode = "ok"
  /\ nextId = 0
  /\ lastCall = [op |-> "none"]
  /\ mounted = FALSE
  /\ inst = 0
  /\ component = [type |-> "infobox", data |-> [title |-> "declared", text |-> "body"]]
  /\ apiData = None
  /\ apiStatus = "idle"
  /\ apiError = None
  /\ lastFetched = None
  /\ isExpanded = FALSE
  /\ intervalRef = None
  /\ timers = {}
  /\ nextTimerId = 1
  /\ pending = {}
  /\ nIssued = 0
  /\ autoFetches = 0
  /\ lastApplied = 0
  /\ staleShown = FALSE
  /\ lastGood = None
  /\ ev = "init"
  /\ lsMarkers = None
  /\ nextMarkerId = 0
  /\ currentPano = None
  /\ isEditMode = FALSE
  /\ editModeType = "component"
  /\ showComponentEditor = FALSE
  /\ showNavMarkerEditor = FALSE
  /\ selectedPosition = None
  /\ editingComponent = None
  /\ selectedType = None
  /\ componentData = None
  /\ selectedRoom = None
  /\ error = None
  /\ handler = "none"
  /\ clickEvent = None
  /\ zindData \in { PanoFile(n) : n \in 0..MaxImages }
  /\ parsed = None
  /\ cache = << >>
  /\ loadingPromises = << >>
  /\ loads = {}
  /\ nextLoad = 0
  /\ clearCalls = 0
  /\ textureCall = [op |-> "none"]
  /\ phase = "loadZindData"
  /\ loading = TRUE
  /\ tourError = None
  /\ loadingProgress = [loaded |-> 0, total |-> 0]
  /\ pendingImages = {}
  /\ failedImages = {}
  /\ loaded = 0
  /\ progressCalls = << >>
  /\ hoveredCoords = None
  /\ roomComponents = <<>>
  /\ navMarkers = <<>>
  /\ markerPos = None
  /\ componentPos = None

LoadNext ==
  \/ LoadZindDataResolves
  \/ LoadZindDataRejects
  \/ \E i \in 1..MaxImages : ImageLoads(i)
  \/ \E i \in 1..MaxImages : ImageErrors(i)

SpecLoad == LoadInit /\ [][LoadNext]_vars

\* loadZindData settles and every image reports load or error.
FairSpecLoad ==
  /\ SpecLoad
  /\ WF_vars(LoadZindDataResolves \/ LoadZindDataRejects)
  /\ \A i \in 1..MaxImages : WF_vars(ImageLoads(i) \/ ImageErrors(i))
\* --------------------------------------------- properties of the renderer
IsApi == component.type = "api"
Card == RenderApiContent(component, apiStatus, apiData)

\* C1: a completion of an earlier-issued fetch that arrives after a
\* later-issued fetch of the same instance has completed leaves apiData,
\* apiStatus and lastFetched as the later one set them, and a completion
\* whose instance is no longer the mounted one changes nothing.
C1_StaleCompletionDiscarded ==
  [][\A f \in pending :
       (f \notin pending' /\ (f.seq < lastApplied \/ ~Alive(f.inst)))
         => UNCHANGED << apiData, apiStatus, lastFetched >>]_apiVars

\* C2: a failed fetch sets status error and keeps apiData; the card stays on
\* the last successfully fetched data when there is one, and is the error
\* card only when no fetch of the instance has succeeded.
C2_FailureKeepsLastGood ==
  [][ev' = "reject" =>
       /\ apiStatus' = "error"
       /\ apiData' = apiData
       /\ Card' = IF IsSome(lastGood')
                    THEN [card |-> component'.data._api.renderAs,
                          data |-> Get(lastGood')]
                    ELSE [card |-> "error"]]_apiVars

C2_Witness ==
  /\ ev = "reject"
  /\ apiStatus = "error"
  /\ IsSome(lastGood)
  /\ Card.data = Get(lastGood)

\* C3: within one instance apiStatus changes only along idle->loading,
\* loading->ok, loading->error, ok->loading and error->loading.
StatusEdges ==
  { <<"idle", "loading">>, <<"loading", "ok">>, <<"loading", "error">>,
    <<"ok", "loading">>, <<"error", "loading">> }

C3_StatusEdgesOnly ==
  [][(inst' = inst /\ apiStatus' # apiStatus)
       => << apiStatus, apiStatus' >> \in StatusEdges]_apiVars

\* C4 as claimed: mounting an api annotation, and every remount after a
\* change of its configuration, sets status loading and issues a fetch of
\* the configured url.
C4_MountAlwaysFetches ==
  [][(ev' \in {"mount", "reconfigure"} /\ component'.type = "api") =>
       /\ apiStatus' = "loading"
       /\ \E f \in pending' \ pending :
            f.inst = inst' /\ f.url = component'.data._api.url]_apiVars

\* C4 amended: that holds when the configured url is not empty; with an
\* empty url the status stays idle and no fetch is issued.
C4_MountFetchesNonEmptyUrl ==
  [][(ev' \in {"mount", "reconfigure"} /\ component'.type = "api") =>
       IF component'.data._api.url # ""
         THEN /\ apiStatus' = "loading"
              /\ \E f \in pending' \ pending :
                   f.inst = inst' /\ f.url = component'.data._api.url
         ELSE /\ apiStatus' = "idle"
              /\ pending' = pending]_apiVars

C4_Witness ==
  /\ ev = "reconfigure"
  /\ IsApi
  /\ apiStatus = "loading"
  /\ \E f \in pending : f.inst = inst /\ f.url = component.data._api.url

\* C5 as claimed: an api annotation with refreshInterval = 0 has issued
\* exactly one fetch from its effect, whatever time has passed, and has no
\* timer.
C5_ExactlyOneFetch ==
  (mounted /\ IsApi /\ IntervalOf(component) = 0) =>
    /\ autoFetches = 1
    /\ intervalRef = None
    /\ \A t \in timers : t.inst # inst

\* C5 amended: exactly one fetch when the url is not empty, none when it is
\* empty; no timer in either case.
C5_OneFetchNonEmptyUrl ==
  (mounted /\ IsApi /\ IntervalOf(component) = 0) =>
    /\ autoFetches = (IF component.data._api.url # "" THEN 1 ELSE 0)
    /\ intervalRef = None
    /\ \A t \in timers : t.inst # inst

C5_Witness ==
  /\ mounted /\ IsApi /\ IntervalOf(component) = 0
  /\ component.data._api.url # ""
  /\ now >= StartMs + 3 * ClockStepMs
  /\ autoFetches = 1
  /\ lastApplied > 0

\* C6: every active timer belongs to the mounted instance, calls its
\* fetchApi every refreshInterval seconds and is the one intervalRef holds;
\* there is at most one; a mounted api annotation with a positive interval
\* has one; after unmount or a remount the earlier timer is gone.
C6_OneTimerOfLiveInstance ==
  /\ Cardinality(timers) <= 1
  /\ \A t \in timers :
       /\ Alive(t.inst)
       /\ IsApi
       /\ IntervalOf(component) > 0
       /\ t.period = IntervalOf(component) * 1000
       /\ t.data = component.data
       /\ intervalRef = Some(t.id)
       /\ t.due <= now + t.period
  /\ (mounted /\ IsApi /\ IntervalOf(component) > 0) => timers # {}
  /\ ~mounted => timers = {}

C6_Witness ==
  /\ ev = "reconfigure"
  /\ nextTimerId = 3
  /\ Cardinality(timers) = 1

\* C7: with refreshInterval > 0 the rendered card carries the stale badge
\* once the last successful fetch is older than 1.5 x refreshInterval
\* seconds, and never carries it when refreshInterval = 0 or no fetch has
\* succeeded.
C7_StaleBadgeOnceOld ==
  (mounted /\ IsApi) =>
    /\ (IntervalOf(component) > 0 /\ IsSome(lastFetched)
          /\ now - Get(lastFetched) > IntervalOf(component) * 1500)
         => staleShown
    /\ (IntervalOf(component) = 0 \/ ~IsSome(lastFetched)) => ~staleShown

\* C8: a successful fetch makes apiData the declared data with every field
\* of the fetched JSON laid over it, sets status ok and lastFetched to the
\* current time, and leaves the annotation itself as it was.
C8_SuccessMergesOverDeclared ==
  [][ev' = "resolve" =>
       /\ apiStatus' = "ok"
       /\ lastFetched' = Some(now)
       /\ component' = component
       /\ IsSome(apiData')
       /\ \E j \in Jsons :
            LET d == Get(apiData')
            IN /\ DOMAIN d = DOMAIN component.data \cup DOMAIN j
               /\ \A k \in DOMAIN j : d[k] = j[k]
               /\ \A k \in DOMAIN component.data \ DOMAIN j :
                    d[k] = component.data[k]]_apiVars

C8_Witness ==
  /\ ev = "resolve"
  /\ apiStatus = "ok"
  /\ Get(apiData).title = "fetched"
  /\ Get(apiData).status = "working"
  /\ lastFetched = Some(now)

\* ------------------------------------------------ properties of the store
\* Spellings of a room label: other letter case, surrounding white space.
Variants(label) ==
  LET cases == {label, ToLowerCase(label), ToUpperCase(label)}
  IN cases
     \cup { <<" ">> \o l : l \in cases }
     \cup { l \o <<"\t">> : l \in cases }
     \cup { <<"\n", " ">> \o l \o <<" ">> : l \in cases }
     \cup { l \in RoomLabels : Normalize(l) = Normalize(label) }

\* The room of the label holds no annotation.
RoomIsEmpty(label) ==
  \A c \in Stored : Normalize(c.roomLabel) # Normalize(label)

\* The room's list ends with the annotation a.
ListedLast(label, a) ==
  LET list == GetComponentsForRoom(label)
  IN list # <<>> /\ ComponentEq(list[Len(list)], a)

FieldEq(k, x, y) == IF k = "position" THEN PositionEq(x, y) ELSE x = y

\* The annotation found under the id after updateComponent(id, updates)
\* carries the updates, and else the fields (id, createdAt) of old.
UpdateApplied(old, updates, found) ==
  /\ DOMAIN found = DOMAIN old
  /\ \A k \in DOMAIN updates : FieldEq(k, found[k], updates[k])
  /\ \A k \in DOMAIN old \ DOMAIN updates : FieldEq(k, found[k], old[k])
  /\ found.id = old.id
  /\ found.createdAt = old.createdAt

\* Every bucket of after has the entries of before, but for the one with
\* the id.
OthersKept(before, after, id) ==
  /\ DOMAIN after = DOMAIN before
  /\ \A room \in DOMAIN before :
       /\ Len(after[room]) = Len(before[room])
       /\ \A i \in 1..Len(before[room]) :
            before[room][i].id # id => after[room][i] = before[room][i]

UpdateStep(id, updates) ==
  LET old == CHOOSE c \in Stored : c.id = id
      found == { c \in Stored' : c.id = id }
  IN /\ found # {}
     /\ \A c \in found : UpdateApplied(old, updates, c)
     /\ OthersKept(LoadRoomComponents, LoadRoomComponents', id)

\* C10 as stated: for every stored annotation and every field set passed to
\* updateComponent(id, fields), the annotation then found under the id has
\* the new values in the named fields and the old values elsewhere, its id
\* and createdAt are the old ones, and no other annotation has changed.
C10_UpdateSetsNamedFieldsOnly ==
  [][lastCall'.op = "updateComponent" =>
       UpdateStep(lastCall'.id, lastCall'.updates)]_vars

\* C10 amended: the same, for an updateComponent whose write the storage
\* accepted.
C10_UpdateSetsNamedFieldsWhenWritten ==
  [][(lastCall'.op = "updateComponent" /\ storageMode = "ok") =>
       UpdateStep(lastCall'.id, lastCall'.updates)]_vars

\* The data alone of the first of two stored annotations was updated, at a
\* later time than its creation, and a lookup finds the new data.
C10_Witness ==
  /\ lastCall.op = "updateComponent"
  /\ storageMode = "ok"
  /\ DOMAIN lastCall.updates = {"data"}
  /\ Cardinality(Stored) = 2
  /\ \E c \in Stored :
       /\ c.id = lastCall.id
       /\ c.data = lastCall.updates.data
       /\ c.data.title = "Edited"
       /\ c.createdAt < now - ClockStepMs

\* Every spelling of every room label of the model.
QueryLabels == UNION { Variants(l) : l \in RoomLabels }

\* The list without the entries that carry the id, in the same order.
Without(list, id) ==
  LET Keep(c) == c.id # id
  IN SelectSeq(list, Keep)

\* getComponentsForRoom(label) on the store as loaded.
ListOf(all, label) == Bucket(all, Normalize(label))

DeleteStep(id) ==
  \A l \in QueryLabels :
    /\ \A i \in DOMAIN ListOf(LoadRoomComponents', l) :
         ListOf(LoadRoomComponents', l)[i].id # id
    /\ ListOf(LoadRoomComponents', l) = Without(ListOf(LoadRoomComponents, l), id)

\* C11 as stated: after deleteComponent(id) no room's list holds an
\* annotation with the id, and every room's list is the list it was
\* without that annotation, in the same relative order.
C11_DeletedIsGoneOthersStay ==
  [][lastCall'.op = "deleteComponent" => DeleteStep(lastCall'.id)]_vars

\* C11 amended: the same, for a deleteComponent whose write the storage
\* accepted.
C11_DeletedIsGoneWhenWritten ==
  [][(lastCall'.op = "deleteComponent" /\ storageMode = "ok") =>
       DeleteStep(lastCall'.id)]_vars

\* The second of three annotations of room "a b" was deleted: the first
\* and the third are listed, in this order.
C11_Witness ==
  /\ lastCall.op = "deleteComponent"
  /\ storageMode = "ok"
  /\ lastCall.id = 2
  /\ nextId = 3
  /\ Len(GetComponentsForRoom(<<"A", " ", "B">>)) = 2
  /\ GetComponentsForRoom(<<"A", " ", "B">>)[1].id = 1
  /\ GetComponentsForRoom(<<"A", " ", "B">>)[2].id = 3

\* C13: a call of addComponent, updateComponent or deleteComponent made
\* while the storage is unavailable or full returns without throwing and
\* leaves the stored item, and so what a later read loads, as it was.
C13_FailedWriteChangesNothing ==
  [][(/\ lastCall'.op \in {"addComponent", "updateComponent", "deleteComponent"}
      /\ storageMode \in {"full", "unavailable"}) =>
       /\ lastCall'.threw = FALSE
       /\ lsComponents' = lsComponents
       /\ LoadRoomComponents' = LoadRoomComponents]_vars

\* An update of a stored annotation was attempted on a full storage, and
\* the annotation still has other data than the update names.
C13_Witness ==
  /\ lastCall.op = "updateComponent"
  /\ storageMode = "full"
  /\ lastCall.threw = FALSE
  /\ "data" \in DOMAIN lastCall.updates
  /\ \E c \in Stored : c.id = lastCall.id /\ c.data # lastCall.updates.data

\* ------------------------------------------------- properties of the tour
\* Two entries have the same fields with === values.
EntryEq(a, b) ==
  /\ DOMAIN a = DOMAIN b
  /\ \A k \in DOMAIN a : FieldEq(k, a[k], b[k])

\* Two mappings have the same buckets, each with the same entries in the
\* same order.
MappingEq(m, r) ==
  /\ DOMAIN r = DOMAIN m
  /\ \A room \in DOMAIN m :
       /\ Len(r[room]) = Len(m[room])
       /\ \A i \in 1..Len(m[room]) : EntryEq(r[room][i], m[room][i])

\* Annotations the tour can create in this state.
NewComponents ==
  { [id |-> nextId + 1, roomLabel |-> currentPano.label, type |-> t,
     position |-> p, data |-> COMPONENT_TEMPLATES[t].data, createdAt |-> now] :
      t \in ComponentTypes, p \in Positions }

\* Markers the tour can create in this state.
NewMarkers ==
  { [id |-> nextMarkerId + 1, fromRoom |-> currentPano.label,
     toRoom |-> AvailableRooms[i], position |-> p, createdAt |-> now] :
      i \in 1..Len(AvailableRooms), p \in Positions }

\* The mappings the annotation store's functions pass to saveRoomComponents
\* in this state.
ComponentContents ==
  {LoadRoomComponents}
  \cup { Added(LoadRoomComponents, c) : c \in NewComponents }
  \cup { Deleted(LoadRoomComponents, c.id) : c \in Stored }
  \cup { Updated(LoadRoomComponents, c.id,
                 [position |-> p, data |-> COMPONENT_TEMPLATES[c.type].data]) :
           c \in Stored, p \in Positions }

MarkerContents ==
  {LoadNavigationMarkers}
  \cup { AddedMarker(LoadNavigationMarkers, m) : m \in NewMarkers }

IsForeign(item) == IsSome(item) /\ Get(item).kind # "json"

\* C14: whenever a store's key is absent or holds text the store did not
\* write, the per-room queries of the rendered room do not throw and return
\* the empty sequence, and no store operation has thrown to its caller.
C14_ForeignContentBehavesAsEmpty ==
  /\ (~IsSome(lsComponents) \/ IsForeign(lsComponents))
       => ~QueryThrows(lsComponents) /\ RoomComponents = <<>>
  /\ (~IsSome(lsMarkers) \/ IsForeign(lsMarkers))
       => ~QueryThrows(lsMarkers) /\ NavMarkers = <<>>
  /\ "threw" \in DOMAIN lastCall => ~lastCall.threw

\* The labels of the panoramas, in every spelling.
PanoLabels ==
  UNION { Variants(AllPanos[i].label) : i \in 1..Len(AllPanos) }

\* C15: every bucket key of both stores is a normalized room label, and in
\* both stores a query by any spelling of a room label returns the entries
\* of the query by the normalized label.
C15_BucketKeysNormalized ==
  /\ \A key \in DOMAIN LoadRoomComponents : key = Normalize(key)
  /\ \A key \in DOMAIN LoadNavigationMarkers : key = Normalize(key)
  /\ \A l \in PanoLabels :
       /\ GetComponentsForRoom(l) = GetComponentsForRoom(Normalize(l))
       /\ GetMarkersForRoom(l) = GetMarkersForRoom(Normalize(l))

\* The stored markers placed in the room of the label, in creation order,
\* as destinations.
DynamicOfRoom(label) ==
  LET InRoom(id) == \E m \in StoredMarkers :
                      m.id = id /\ Normalize(m.fromRoom) = Normalize(label)
      ids == SelectSeq([i \in 1..nextMarkerId |-> i], InRoom)
      ById(id) == CHOOSE m \in StoredMarkers : m.id = id
  IN [i \in 1..Len(ids) |->
        [room |-> ById(ids[i]).toRoom, coords |-> ById(ids[i]).position]]

\* C16: in every panorama of a room the rendered destinations are the
\* static table's entries of the room in declaration order, followed by
\* every dynamic marker placed in the room in creation order.
C16_StaticThenDynamic ==
  \A i \in 1..Len(AllPanos) :
    LET label == AllPanos[i].label
    IN AllDestinations(label)
         = ROOM_MARKERS[Normalize(label)] \o DynamicOfRoom(label)

\* The step is a submit of the navigation form with no destination chosen.
RejectedSubmit ==
  /\ showNavMarkerEditor
  /\ selectedRoom = Some(<<>>)
  /\ handler' = "NavigationMarkerEditor.handleSave"
  /\ clickEvent' = None

\* The step chooses a destination in the navigation form.
DestinationChosen ==
  /\ showNavMarkerEditor
  /\ handler' = "setSelectedRoom"
  /\ clickEvent' = None
  /\ UNCHANGED viewerVars
  /\ selectedRoom' # Some(<<>>)

\* C17: a submit of the navigation form with no destination chosen leaves
\* the navigation-marker store as it is, calls no store function, keeps the
\* modal open with the same position and sets the error indicator; choosing
\* a destination clears the indicator.
C17_SubmitWithoutDestinationRejected ==
  [][ /\ RejectedSubmit =>
           /\ lsMarkers' = lsMarkers
           /\ LoadNavigationMarkers' = LoadNavigationMarkers
           /\ lastCall' = [op |-> "none"]
           /\ showNavMarkerEditor'
           /\ selectedPosition' = selectedPosition
           /\ selectedRoom' = Some(<<>>)
           /\ error' = Some(TRUE)
      /\ DestinationChosen => error' = Some(FALSE) ]_vars

\* A submit without destination was rejected after a marker was stored.
C17_Witness ==
  /\ handler = "NavigationMarkerEditor.handleSave"
  /\ showNavMarkerEditor
  /\ selectedRoom = Some(<<>>)
  /\ error = Some(TRUE)
  /\ StoredMarkers # {}

\* C18: every stored navigation marker leads to another room than the one
\* it is placed in.
C18_DestinationIsAnotherRoom ==
  \A m \in StoredMarkers : Normalize(m.toRoom) # Normalize(m.fromRoom)

\* The step is a cancel of one of the two forms.
Cancelled ==
  handler' \in {"ComponentEditor.onClose", "NavigationMarkerEditor.onClose"}

\* The step opens a form.
Opened == handler' \in {"handleCoordinateClick", "handleEditComponent"}

\* The session shows the tour: no modal, no position, no annotation under
\* edit, and no form state of an editor.
Viewing ==
  /\ ~showComponentEditor /\ ~showNavMarkerEditor
  /\ selectedPosition = None
  /\ editingComponent = None
  /\ selectedType = None /\ componentData = None
  /\ selectedRoom = None /\ error = None

\* The form state is the editors' initial state: the template's values, or
\* the type and data of the stored annotation under edit.
FreshForm ==
  /\ selectedRoom = Some(<<>>) /\ error = Some(FALSE)
  /\ IF IsSome(editingComponent)
       THEN \E c \in Stored :
              /\ c.id = Get(editingComponent).id
              /\ selectedType = Some(c.type)
              /\ componentData = Some(c.data)
              /\ selectedPosition = Some(c.position)
       ELSE /\ selectedType = Some("infobox")
            /\ componentData = Some(COMPONENT_TEMPLATES.infobox.data)

\* C19: a cancel of either form changes neither store, calls no store
\* function and returns the session to viewing with the form state gone;
\* every form opened starts from the defaults or the stored annotation.
C19_CancelChangesNothing ==
  [][ /\ Cancelled =>
           /\ ModalOpen
           /\ lsComponents' = lsComponents /\ lsMarkers' = lsMarkers
           /\ lastCall' = [op |-> "none"]
           /\ Viewing'
      /\ Opened => ModalOpen' /\ FreshForm' ]_vars

\* The annotation form was cancelled while annotations are stored.
C19_Witness ==
  /\ handler = "ComponentEditor.onClose"
  /\ Viewing
  /\ Stored # {}

\* C20: a submit of the annotation form calls updateComponent with the id
\* of the annotation under edit, or else addComponent with the form's
\* values, an id no stored annotation has and the current time; a submit of
\* the navigation form with a destination calls addNavigationMarker with
\* the current panorama's label and the destination; one call is made per
\* submit and the session is viewing afterwards.
C20_SubmitCommitsOnce ==
  [][ /\ handler' = "handleSaveComponent" =>
           /\ showComponentEditor
           /\ IF IsSome(editingComponent)
                THEN /\ lastCall'.op = "updateComponent"
                     /\ lastCall'.id = Get(editingComponent).id
                     /\ lastCall'.updates.data = Get(componentData)
                     /\ nextId' = nextId
                ELSE /\ lastCall'.op = "addComponent"
                     /\ \A c \in Stored : c.id # lastCall'.component.id
                     /\ lastCall'.component.createdAt = now
                     /\ lastCall'.component.data = Get(componentData)
                     /\ lastCall'.component.position = Get(selectedPosition)
                     /\ \E c \in Stored' : c.id = lastCall'.component.id
           /\ lsMarkers' = lsMarkers
           /\ Viewing'
      /\ (handler' = "NavigationMarkerEditor.handleSave"
          /\ showNavMarkerEditor /\ selectedRoom # Some(<<>>)) =>
           /\ lastCall'.op = "addNavigationMarker"
           /\ lastCall'.marker.fromRoom = currentPano.label
           /\ lastCall'.marker.toRoom = Get(selectedRoom)
           /\ \A m \in StoredMarkers : m.id # lastCall'.marker.id
           /\ \E m \in StoredMarkers' : m.id = lastCall'.marker.id
           /\ lsComponents' = lsComponents
           /\ Viewing' ]_vars

\* An edit of a stored annotation was committed after a marker was stored.
C20_Witness ==
  /\ handler = "handleSaveComponent"
  /\ lastCall.op = "updateComponent"
  /\ \E c \in Stored : c.id = lastCall.id /\ c.data.title = "Edited"
  /\ StoredMarkers # {}
  /\ Viewing

\* The stored annotation with the id.
StoredById(id) == CHOOSE c \in Stored : c.id = id

\* C21: while a stored annotation is under edit the form's type is the
\* stored type, the commit writes that type and leaves the stored type as
\* it was; a type is chosen only for a new annotation and sets the form
\* data to the type's template.
C21_TypeFixedAfterCreation ==
  [][ /\ (handler' = "handleSaveComponent" /\ IsSome(editingComponent)) =>
           LET id == Get(editingComponent).id
           IN /\ \E c \in Stored : c.id = id
              /\ selectedType = Some(StoredById(id).type)
              /\ lastCall'.op = "updateComponent"
              /\ lastCall'.updates.type = StoredById(id).type
              /\ \E c \in Stored' : c.id = id /\ c.type = StoredById(id).type
      /\ handler' = "handleTypeChange" =>
           /\ ~IsSome(editingComponent)
           /\ componentData' = Some(COMPONENT_TEMPLATES[Get(selectedType')].data) ]_vars

\* An edit of a stored annotation of a type other than the default was
\* committed.
C21_Witness ==
  /\ handler = "handleSaveComponent"
  /\ lastCall.op = "updateComponent"
  /\ lastCall.updates.type = "status"
  /\ \E c \in Stored :
       c.id = lastCall.id /\ c.type = "status" /\ c.data.title = "Edited"

\* The step opens a form by a click on the canvas.
PlacementOpened == handler' = "handleCoordinateClick"

\* C22: a click opens a form only in edit mode and with a candidate point
\* computed by pointer movement; the form gets the last candidate point, and
\* it is the annotation form for the kind component and the navigation form
\* for the kind navigation. A form opens by no other step than a placement
\* click or the Edit button of an annotation, both in edit mode, and a click
\* the handler ignores opens nothing.
C22_PlacementOpensOnlyInEditMode ==
  [][ /\ PlacementOpened =>
           /\ isEditMode /\ ~ModalOpen
           /\ IsSome(hoveredCoords)
           /\ Get(clickEvent').shiftKey
           /\ selectedPosition' = hoveredCoords
           /\ showComponentEditor' = (editModeType = "component")
           /\ showNavMarkerEditor' = (editModeType = "navigation")
      /\ (ModalOpen' /\ ~ModalOpen) =>
           /\ isEditMode
           /\ handler' \in {"handleCoordinateClick", "handleEditComponent"}
      /\ handler' = "handleCanvasClick" =>
           /\ ~ModalOpen' /\ selectedPosition' = None ]_vars

\* The navigation form is open at the second of two candidate points.
C22_Witness ==
  /\ handler = "handleCoordinateClick"
  /\ showNavMarkerEditor /\ ~showComponentEditor
  /\ hoveredCoords = Some(<< Num(FALSE, 3000), Num(TRUE, 4000), Num(FALSE, 0) >>)
  /\ selectedPosition = hoveredCoords

\* x * x + y * y + z * z, in hundredths squared.
SquaredLength(v) == v[1].mag * v[1].mag + v[2].mag * v[2].mag + v[3].mag * v[3].mag

\* The vector (0, 0, 0) in its eight spellings of signed zeros.
ZeroVectors ==
  { << Num(a, 0), Num(b, 0), Num(c, 0) >> : a \in BOOLEAN, b \in BOOLEAN, c \in BOOLEAN }

Signed(n) == IF n.neg THEN 0 - n.mag ELSE n.mag

\* |a - b| <= slack
Within(a, b, slack) == a - b <= slack /\ b - a <= slack

\* r has the direction of v: the signs of the coordinates agree, the dot
\* product is positive and the cross product vanishes up to rounding.
SameDirection(r, v) ==
  /\ \A i \in 1..3 : r[i].neg = v[i].neg
  /\ Signed(r[1]) * Signed(v[1]) + Signed(r[2]) * Signed(v[2])
       + Signed(r[3]) * Signed(v[3]) > 0
  /\ \A i \in 1..3 : \A j \in 1..3 :
       Within(Signed(r[i]) * Signed(v[j]), Signed(r[j]) * Signed(v[i]),
              RoundingSlack * (v[i].mag + v[j].mag))

\* r is v scaled to the render radius.
IsRenderPositionOf(r, v) ==
  SquaredLength(v) > 0 =>
    /\ Within(Sqrt(SquaredLength(r)), RenderRadius, RoundingSlack)
    /\ SameDirection(r, v)

\* C24: a render computes, for every destination marker and every
\* annotation of the room with a nonzero position v, the position v scaled
\* to magnitude 48 in the direction of v (up to rounding), and leaves the
\* stored items and the memoized lists as they were.
C24_RenderScalesToRadius ==
  [][ handler' = "PanoramaViewer" =>
        /\ IsSome(markerPos') /\ IsSome(componentPos')
        /\ Len(Get(markerPos')) = Len(RenderedDestinations)
        /\ Len(Get(componentPos')) = Len(roomComponents)
        /\ \A i \in 1..Len(RenderedDestinations) :
             IsRenderPositionOf(Get(markerPos')[i], RenderedDestinations[i].coords)
        /\ \A i \in 1..Len(roomComponents) :
             IsRenderPositionOf(Get(componentPos')[i], roomComponents[i].position)
        /\ UNCHANGED << lsComponents, lsMarkers, roomComponents, navMarkers >>
    ]_vars

\* A render of a room with a stored annotation and a stored marker whose
\* positions are off the axes.
C24_Witness ==
  /\ handler = "PanoramaViewer"
  /\ IsSome(componentPos) /\ IsSome(markerPos)
  /\ \E i \in 1..Len(roomComponents) :
       /\ roomComponents[i].position[3] = Num(TRUE, 4583)
       /\ Get(componentPos)[i] # roomComponents[i].position
  /\ \E i \in 1..Len(navMarkers) : navMarkers[i].position[1] = Num(FALSE, 3000)

\* ------------------------------------------------------------------ C25
\* A field as the entry supplies it, the default when the entry omits it.
SuppliedOrDefault(field, default) ==
  IF IsSome(field) THEN Get(field) ELSE default

\* The entries of the data file whose id starts with "pano_", in order.
PanoEntries ==
  LET IsPano(entry) == StartsWith(entry.panoId, PanoPrefix)
  IN SelectSeq(zindData, IsPano)

\* C25 as stated: parseZindData returns one panorama for every entry whose
\* id starts with "pano_" and none for the others, and each of label,
\* floorNumber, cameraHeight, ceilingHeight, isPrimary and isInside is the
\* entry's value when the entry supplies it and the default ("Unknown
\* Room", 1, 1.5, 2.5, false, true) when the entry omits it.
C25_ParsedFieldsAsSupplied ==
  IsSome(parsed) =>
    /\ Len(Get(parsed)) = Len(PanoEntries)
    /\ \A i \in 1..Len(PanoEntries) :
         LET pano == Get(parsed)[i]
             panoData == PanoEntries[i].panoData
         IN /\ pano.panoId = PanoEntries[i].panoId
            /\ pano.label = SuppliedOrDefault(panoData.label, <<"Unknown Room">>)
            /\ pano.floorNumber = SuppliedOrDefault(panoData.floor_number, 1)
            /\ pano.cameraHeight = SuppliedOrDefault(panoData.camera_height, 150)
            /\ pano.ceilingHeight = SuppliedOrDefault(panoData.ceiling_height, 250)
            /\ pano.isPrimary = SuppliedOrDefault(panoData.is_primary, FALSE)
            /\ pano.isInside = SuppliedOrDefault(panoData.is_inside, TRUE)

\* ------------------------------------------------------------------ C26
\* The functions of the annotation store.
ComponentStoreOps ==
  { "addComponent", "updateComponent", "deleteComponent", "clearAllComponents" }

\* C26: a call of an annotation-store function leaves the marker item as
\* it was, a call of addNavigationMarker leaves the annotation item as it
\* was, and after clearAllComponents no room has an annotation.
C26_StoresIndependent ==
  [][ /\ lastCall'.op \in ComponentStoreOps =>
           /\ lsMarkers' = lsMarkers
           /\ StoredMarkers' = StoredMarkers
      /\ lastCall'.op = "addNavigationMarker" =>
           /\ lsComponents' = lsComponents
           /\ Stored' = Stored
      /\ lastCall'.op = "clearAllComponents" =>
           /\ Stored' = {}
           /\ \A label \in PanoLabels : GetComponentsForRoom(label)' = <<>>
    ]_vars

\* A reset of a tour in which an annotation and a marker were created: the
\* marker is still stored.
C26_Witness ==
  /\ lastCall.op = "clearAllComponents"
  /\ nextId >= 1
  /\ Stored = {}
  /\ StoredMarkers # {}

\* ------------------------------------------------------------------ C27
\* C27: after every call of addComponent, updateComponent, deleteComponent
\* or clearAllComponents made by the editor's handlers the annotations the
\* viewer renders are those getComponentsForRoom returns for the current
\* panorama's label, and after every call of addNavigationMarker the
\* dynamic markers it renders are those getMarkersForRoom returns.
C27_RenderedIsStored ==
  [][ /\ lastCall'.op \in ComponentStoreOps =>
           roomComponents' = GetComponentsForRoom(currentPano.label)'
      /\ lastCall'.op = "addNavigationMarker" =>
           /\ navMarkers' = GetMarkersForRoom(currentPano.label)'
           /\ RenderedDestinations' = AllDestinations(currentPano.label)'
    ]_vars

\* A marker was created in a room that shows a stored annotation.
C27_Witness ==
  /\ lastCall.op = "addNavigationMarker"
  /\ ~lastCall.threw
  /\ navMarkers # <<>>
  /\ roomComponents # <<>>

\* ------------------------------------------------------------------ C28
\* C28: a form opened by handleCoordinateClick has no annotation under
\* edit, and a commit without an annotation under edit calls addComponent;
\* editingComponent becomes non-null only by handleEditComponent, which
\* runs only while no form is open, and is non-null only while the
\* annotation form is open.
C28_PlacementAlwaysCreates ==
  [][ /\ handler' = "handleCoordinateClick" =>
           /\ editingComponent' = None
           /\ showComponentEditor' \/ showNavMarkerEditor'
      /\ (handler' = "handleSaveComponent" /\ editingComponent = None) =>
           lastCall'.op = "addComponent"
      /\ handler' = "handleEditComponent" =>
           ~showComponentEditor /\ ~showNavMarkerEditor
      /\ IsSome(editingComponent') =>
           /\ showComponentEditor' /\ ~showNavMarkerEditor'
           /\ handler' = "handleEditComponent" \/ IsSome(editingComponent)
    ]_vars

\* The annotation form opened by a placement click while an annotation is
\* stored (which the Edit button could have put under edit before).
C28_Witness ==
  /\ handler = "handleCoordinateClick"
  /\ showComponentEditor
  /\ editingComponent = None
  /\ Stored # {}

\* ------------------------------------------------------------------ C29
\* The pending loads of an image path.
LoadsOf(path) == { load \in loads : load.path = path }

Total == IF IsSome(parsed) THEN Len(Get(parsed)) ELSE 0

\* onProgress was called once for every image that reported, with
\* loaded = 1, 2, ... in this order and total = panos.length.
ProgressInOrder ==
  /\ progressCalls = [k \in 1..loaded |-> [loaded |-> k, total |-> Total]]
  /\ IsSome(parsed) => loaded + Cardinality(pendingImages) = Total
  /\ failedImages \cap pendingImages = {}

\* loadData is over: after a parsed data file the preload resolved with
\* one onProgress call per image and no error state, otherwise the error
\* state is set.
LoadDataOver ==
  /\ ~loading
  /\ IF IsSome(parsed)
       THEN /\ phase = "done"
            /\ tourError = None
            /\ pendingImages = {}
            /\ Len(progressCalls) = Total
       ELSE /\ phase = "failed"
            /\ IsSome(tourError)

\* C30: when loadZindData settles and every image reports load or error,
\* onProgress is called exactly once per image with loaded = 1..total in
\* order, the preload resolves whatever images fail, and loading
\* eventually is and stays false, with the error state set when the room
\* data could not be loaded.
C30_LoadingEventuallyFalse ==
  /\ []ProgressInOrder
  /\ <>[]LoadDataOver

\* The preload has resolved although some, not all, images failed.
C30_Witness ==
  /\ phase = "done"
  /\ ~loading
  /\ failedImages # {}
  /\ Cardinality(failedImages) < Total
  /\ Len(progressCalls) = Total

====
